---- MODULE Spec2Model ----
(***************************************************************************)
(* webllm-chat: the benchmark orchestrator (hooks/useBenchmark.ts), its    *)
(* result sink (services/remoteApi.ts), the dashboard that starts runs     *)
(* (components/BenchmarkDashboard) and the chat send path (App.tsx).       *)
(*                                                                         *)
(* Every async function is a process: one activation record per call, its  *)
(* pc naming the await it is suspended at.  A step of the model is the     *)
(* synchronous code between two awaits.  React state setters are applied   *)
(* in call order (functional updates read the latest queued value), so the *)
(* hook state is modelled by plain variables.                              *)
(***************************************************************************)
EXTENDS Integers, Sequences, FiniteSets, TLC

\* ------------------------------------------------------------------ bounds
\* Size of the prompt corpus (TEST_PROMPTS holds 20 entries in the source).
NumPrompts == 2
\* Benchmark runs (activations of either entry point) started in one behaviour.
MaxRuns == 2
\* clearResults calls in one behaviour.
MaxClears == 1
\* Chat messages sent in one behaviour.
MaxSends == 1
\* Fragments (chunks of the local stream, lines of the remote one) read by
\* one generate call.
MaxFrags == 3
\* Largest reading of the clock (performance.now(), in ms).
MaxTime == 3
\* Largest completion_tokens figure a stream reports.
MaxUsage == 2
\* Longest conversation history passed to a generate call.
MaxHistory == 2
\* Calls of initEngine whose outcome is kept in initLog.
MaxInits == 3
\* Longest prompt or response text given to the CSV export, and the most
\* files it is asked for.
MaxText == 2
MaxDownloads == 1
\* Most lines in a remote response body.
MaxLines == 2
\* saveLocalMessages calls after which the chat is not cleared again.
MaxSaves == 3
\* eng.reload() calls in flight after which the engine is not reset again.
MaxLoads == 2

\* ------------------------------------------------------------------ values
\* JavaScript null / undefined of a nullable field.
NULL == "null"
Modes == {"local", "remote"}
\* What a generate call can do: return a non-empty text, return the empty
\* text (a stream without content), or reject.  Both backends call onMetrics
\* right before they return, so a returned call has delivered its metrics.
GenOutcomes == {"text", "empty", "fail"}

VARIABLES
  \* useBenchmark state
  results, comparisonResults, isRunning, isComparing,
  currentPromptIndex, currentMode, hasHydrated,
  \* activations of runBenchmarkSuite / runComparisonBenchmark, and how many
  \* were started; clearResults calls made
  runs, nextRun, clears,
  \* the result sink: what the server stores, and the requests in flight
  sinkStore, pending,
  \* App state: selected mode, chat isLoading, the handleSend activation
  mode, isLoading, chat, sends,
  \* useWebLLM state
  engine, isInitialized, engLoading, hasTriedInit,
  \* what the first calls of initEngine did, in order: started a load ("load")
  \* or returned at once ("skip")
  initLog,
  \* the eng.reload() calls that have not settled yet
  loads,
  \* how the orchestrator's promises on the sink have settled so far
  settled,
  \* one generate call (useWebLLM.generate or generateRemoteResponse) and
  \* what it has read from its stream
  gen,
  \* the files downloadCSV has handed to the browser, in order
  csv,
  \* one call of a history or benchmark endpoint client: the function, the
  \* server's answer and how the call ended
  apiCall,
  \* App state of the chat: the two transcripts, the error banner and
  \* whether the local transcript has been loaded
  messagesByMode, error, hasHydratedLocal,
  \* the mount effect's history loads that have not resolved yet
  historyLoads,
  \* the browser's IndexedDB store of the local transcript, the values
  \* saveLocalMessages has been called with, in order, and the writes
  \* (puts and deletes) that have not reached the store yet
  localDB, localSaves, localWrites

benchVars == <<results, comparisonResults, isRunning, isComparing,
               currentPromptIndex, currentMode, hasHydrated>>
runVars == <<runs, nextRun, clears>>
sinkVars == <<sinkStore, pending>>
appVars == <<mode, isLoading, chat, sends>>
engineVars == <<engine, isInitialized, engLoading, hasTriedInit, initLog, loads>>
chatVars == <<messagesByMode, error, hasHydratedLocal, historyLoads,
              localDB, localSaves, localWrites>>
vars == <<benchVars, runVars, sinkVars, appVars, engineVars, settled, gen, csv, apiCall, chatVars>>

\* `let firstTokenTime: number | null = null`: no time captured yet.
NoTime == -1
\* `let usage = null`: the stream has reported no usage figure.
NoUsage == -1

\* No generate call has been made.  A call keeps its clock reading (now), the
\* locals of the function (start, first, fullText, tokenCount, usage), what
\* it has read (frags, each with the time it was read at), the values it has
\* passed to onUpdate and to onMetrics, and the text it returned; body is
\* the remote response's byte stream, pos how much of it reader.read() has
\* delivered and buffer the unfinished line kept between reads; history is
\* the conversationHistory it was given and sent the message list it handed
\* to its backend (none yet).
NoCall ==
  [backend |-> "none", pc |-> "idle", now |-> 0, start |-> 0, end |-> 0,
   first |-> NoTime, fullText |-> <<>>, tokenCount |-> 0, usage |-> NoUsage,
   frags |-> <<>>, updates |-> <<>>, emitted |-> <<>>, returned |-> <<>>,
   history |-> <<>>, sent |-> <<>>,
   body |-> <<>>, pos |-> 0, buffer |-> <<>>]

\* The text of an error banner.
ErrorMessage == "error"

\* No endpoint client has been called.
NoApiCall == [fn |-> "none"]

\* The chat right after the App has mounted: both transcripts empty
\* (useState's initial value), no error, the local transcript not hydrated,
\* and both history loads of the mount effect in flight; nothing has been
\* handed to IndexedDB.
ChatMounted ==
  /\ messagesByMode = [local |-> <<>>, remote |-> <<>>]
  /\ error = NULL
  /\ hasHydratedLocal = FALSE
  /\ historyLoads = Modes
  /\ localSaves = <<>>
  /\ localWrites = {}

\* ------------------------------------------------------------ pure helpers
\* The text is stored as it is.
OrNull_Keep(text) == text

\* `x || null` on a response text: the empty text becomes null.
OrNull(text) == IF text = "" THEN NULL ELSE text

\* `x || ""` on a response text.
OrEmpty(text) == IF text = NULL THEN "" ELSE text

\* The text a generate call resolves with.
TextOf(out) == IF out = "text" THEN "text" ELSE ""

\* The metrics captured by the onMetrics callback of a call made by run r:
\* null when the call rejected (onMetrics was never invoked).
MetricsOf(out, r) == IF out = "fail" THEN NULL ELSE "m" \o ToString(r)

\* The message of the Error a failed call rejects with.
ErrorOf(out) == "error"

\* One BenchmarkResult; run stands for its timestamp (which run produced it).
BenchmarkResult(p, m, metrics, response, r) ==
  [promptId |-> p, mode |-> m, metrics |-> metrics, response |-> response, run |-> r]

\* TEST_PROMPTS.map(p => ({promptId, promptText, local: null, ...}))
InitialResults ==
  [p \in 1..NumPrompts |->
     [promptId |-> p, local |-> NULL, localResponse |-> NULL,
      remote |-> NULL, remoteResponse |-> NULL,
      localError |-> NULL, remoteError |-> NULL]]

\* Mutant: the callback's index is off by one (the next prompt's entry).
SetLocal_Shifted(prev, i, metrics, text) ==
  [idx \in 1..Len(prev) |->
     IF idx = i + 1
     THEN [prev[idx] EXCEPT !.local = metrics, !.localResponse = OrNull(text)]
     ELSE prev[idx]]

\* prev.map((r, idx) => idx === i ? {...r, local, localResponse} : r)
SetLocal(prev, i, metrics, text) ==
  [idx \in 1..Len(prev) |->
     IF idx = i
     THEN [prev[idx] EXCEPT !.local = metrics, !.localResponse = OrNull(text)]
     ELSE prev[idx]]

\* Mutant: the catch block records nothing.
SetLocalError_Dropped(prev, i, msg) == prev

\* prev.map((r, idx) => idx === i ? {...r, localError: errorMsg} : r)
SetLocalError(prev, i, msg) ==
  [idx \in 1..Len(prev) |->
     IF idx = i THEN [prev[idx] EXCEPT !.localError = msg] ELSE prev[idx]]

\* Mutant: the updated entry is built anew instead of spreading the old one.
SetRemote_NoSpread(prev, i, metrics, text) ==
  [idx \in 1..Len(prev) |->
     IF idx = i
     THEN [InitialResults[idx] EXCEPT !.remote = metrics, !.remoteResponse = OrNull(text)]
     ELSE prev[idx]]

\* prev.map((r, idx) => idx === i ? {...r, remote, remoteResponse} : r)
SetRemote(prev, i, metrics, text) ==
  [idx \in 1..Len(prev) |->
     IF idx = i
     THEN [prev[idx] EXCEPT !.remote = metrics, !.remoteResponse = OrNull(text)]
     ELSE prev[idx]]

\* The entry that failed is built anew instead of spreading the old one.
SetRemoteError_NoSpread(prev, i, msg) ==
  [idx \in 1..Len(prev) |->
     IF idx = i THEN [InitialResults[idx] EXCEPT !.remoteError = msg] ELSE prev[idx]]

\* prev.map((r, idx) => idx === i ? {...r, remoteError: errorMsg} : r)
SetRemoteError(prev, i, msg) ==
  [idx \in 1..Len(prev) |->
     IF idx = i THEN [prev[idx] EXCEPT !.remoteError = msg] ELSE prev[idx]]

\* ------------------------------------------------------------- activations
NoRun ==
  [kind |-> "none", pc |-> "none", i |-> 0, mode |-> "remote",
   isLocalReady |-> FALSE, newResults |-> <<>>, log |-> <<>>, clearsAtStart |-> 0]

RunIds == 1..MaxRuns

\* A run is active from its start until its finally block has run.
Active(r) == runs[r].pc \notin {"none", "done"}

\* The log of a run with a call appended / with its last call's outcome set.
Issued(run, side) ==
  Append(run.log, [prompt |-> run.i, side |-> side, out |-> "inflight"])
Returned(run, out) ==
  [run.log EXCEPT ![Len(run.log)].out = out]

\* Mutant: the result is pushed whether or not metrics were captured.
Pushed_Always(run, side, metrics, text, r) ==
  Append(run.newResults, BenchmarkResult(run.i, side, metrics, OrEmpty(text), r))

\* newResults.push({...}) guarded by `if (capturedMetrics)`.
Pushed(run, side, metrics, text, r) ==
  IF metrics # NULL
  THEN Append(run.newResults, BenchmarkResult(run.i, side, metrics, OrEmpty(text), r))
  ELSE run.newResults

\* saveBenchmarkResults(newResults) issued when newResults.length > 0.
WithSave(reqs, r, batch) ==
  IF Len(batch) > 0
  THEN reqs \cup {[op |-> "save", id |-> r, batch |-> batch]}
  ELSE reqs


\* The busy flag is reset at the end of the try block only, so a run that
\* left through the catch block keeps it.
BusyAfter_NoFinally(aborted) == aborted

\* The busy flag (isRunning, isComparing) after a run function has left:
\* `finally { setIsRunning(false) }` runs on every path.
BusyAfter(aborted) == FALSE

\* ------------------------------------------------- useBenchmark: single mode
\* Mutant: a rejected generateFn is swallowed and the loop goes on.
SingleAborts_Never(out) == FALSE

\* The try block of runBenchmarkSuite wraps the whole loop: a rejected
\* generateFn leaves the loop for the catch block.
SingleAborts(out) == out = "fail"

\* setResults((prev) => [...prev, ...newResults]), reached after the loop only.
PublishSingle(prev, newResults) == prev \o newResults

\* runBenchmarkSuite(mode, generateFn) up to its first await (the pacing delay
\* before prompt 0).
runBenchmarkSuite(m) ==
  /\ nextRun < MaxRuns
  /\ nextRun' = nextRun + 1
  /\ isRunning' = TRUE
  /\ currentMode' = m
  /\ currentPromptIndex' = 0
  /\ runs' = [runs EXCEPT ![nextRun + 1] =
       [NoRun EXCEPT !.kind = "single", !.pc = "delay", !.i = 1, !.mode = m,
                     !.clearsAtStart = clears]]
  /\ UNCHANGED <<results, comparisonResults, isComparing, hasHydrated, clears, sinkVars>>
  /\ UNCHANGED <<settled, gen, csv, apiCall, chatVars>>

\* The pacing delay of run r elapses: generateFn is called for prompt i.
SingleDelayDone(r) ==
  /\ runs[r].kind = "single"
  /\ runs[r].pc = "delay"
  /\ runs' = [runs EXCEPT ![r].pc = "gen", ![r].log = Issued(runs[r], runs[r].mode)]
  /\ UNCHANGED <<benchVars, nextRun, clears, sinkVars, appVars, engineVars>>
  /\ UNCHANGED <<settled, gen, csv, apiCall, chatVars>>

\* generateFn of run r settles with outcome out: push the result and go on to
\* the next prompt, or publish and persist after the last one, or abort.
SingleGenReturn(r, out) ==
  LET run == runs[r]
      pushed == Pushed(run, run.mode, MetricsOf(out, r), TextOf(out), r)
      ran == [run EXCEPT !.log = Returned(run, out)]
  IN
  /\ run.kind = "single"
  /\ run.pc = "gen"
  /\ IF SingleAborts(out)
     THEN /\ runs' = [runs EXCEPT ![r] = [ran EXCEPT !.pc = "done"]]
          /\ isRunning' = BusyAfter(TRUE)
          /\ UNCHANGED <<results, currentPromptIndex, pending>>
     ELSE IF run.i < NumPrompts
     THEN /\ runs' = [runs EXCEPT ![r] =
               [ran EXCEPT !.newResults = pushed, !.i = run.i + 1, !.pc = "delay"]]
          /\ currentPromptIndex' = run.i
          /\ UNCHANGED <<results, isRunning, pending>>
     ELSE /\ runs' = [runs EXCEPT ![r] =
               [ran EXCEPT !.newResults = pushed, !.pc = "done"]]
          /\ results' = PublishSingle(results, pushed)
          /\ pending' = WithSave(pending, r, pushed)
          /\ isRunning' = BusyAfter(FALSE)
          /\ UNCHANGED currentPromptIndex
  /\ UNCHANGED <<comparisonResults, isComparing, currentMode, hasHydrated,
                 nextRun, clears, sinkStore, appVars, engineVars>>
  /\ UNCHANGED <<settled, gen, csv, apiCall, chatVars>>

\* --------------------------------------------- useBenchmark: comparison mode
\* Mutant: a rejected side call reaches the outer catch (no inner try/catch).
CompareAborts_FailFast(side, out) == out = "fail"

\* Each side's call sits in its own try/catch inside the loop: a rejected
\* call is caught there and never reaches the outer catch.
CompareAborts(side, out) == FALSE

\* Mutant: the matrix is initialized only when there is none yet.
ComparisonAtStart_KeepOld(prev) == IF Len(prev) = 0 THEN InitialResults ELSE prev

\* setComparisonResults(initialResults) at the start of a comparison run.
ComparisonAtStart(prev) == InitialResults

\* The local call is made whether or not the engine is ready.
EnterPrompt_AlwaysLocal(run) ==
  [run EXCEPT !.pc = "localGen", !.log = Issued(run, "local")]

\* The run at the top of the loop body for prompt run.i: the local call when
\* isLocalReady, otherwise straight to the remote call.
EnterPrompt(run) ==
  IF run.isLocalReady
  THEN [run EXCEPT !.pc = "localGen", !.log = Issued(run, "local")]
  ELSE [run EXCEPT !.pc = "remoteGen", !.log = Issued(run, "remote")]

\* runComparisonBenchmark(localGenerateFn, remoteGenerateFn, isLocalReady) up
\* to its first await (the first generate call).
runComparisonBenchmark(ready) ==
  /\ nextRun < MaxRuns
  /\ nextRun' = nextRun + 1
  /\ isComparing' = TRUE
  /\ currentPromptIndex' = 0
  /\ comparisonResults' = ComparisonAtStart(comparisonResults)
  /\ currentMode' = IF ready THEN "local" ELSE "remote"
  /\ runs' = [runs EXCEPT ![nextRun + 1] =
       EnterPrompt([NoRun EXCEPT !.kind = "compare", !.i = 1,
                                 !.isLocalReady = ready, !.clearsAtStart = clears])]
  /\ UNCHANGED <<results, isRunning, hasHydrated, clears, sinkVars>>
  /\ UNCHANGED <<settled, gen, csv, apiCall, chatVars>>

\* The outer catch/finally of runComparisonBenchmark.
CompareAbort(r, ran) ==
  /\ runs' = [runs EXCEPT ![r] = [ran EXCEPT !.pc = "done"]]
  /\ isComparing' = BusyAfter(TRUE)
  /\ UNCHANGED <<results, comparisonResults, pending>>

\* localGenerateFn of run r settles: fill local/localResponse and push a
\* result, or fill localError; then the inter-side delay starts.
CompareLocalReturn(r, out) ==
  LET run == runs[r]
      metrics == MetricsOf(out, r)
      ran == [run EXCEPT !.log = Returned(run, out)]
  IN
  /\ run.kind = "compare"
  /\ run.pc = "localGen"
  /\ IF CompareAborts("local", out)
     THEN CompareAbort(r, ran)
     ELSE /\ comparisonResults' =
               IF out = "fail"
               THEN SetLocalError(comparisonResults, run.i, ErrorOf(out))
               ELSE SetLocal(comparisonResults, run.i, metrics, TextOf(out))
          /\ runs' = [runs EXCEPT ![r] =
               [ran EXCEPT !.newResults = Pushed(run, "local", metrics, TextOf(out), r),
                           !.pc = "sideDelay"]]
          /\ UNCHANGED <<results, isComparing, pending>>
  /\ UNCHANGED <<isRunning, currentPromptIndex, currentMode, hasHydrated,
                 nextRun, clears, sinkStore, appVars, engineVars>>
  /\ UNCHANGED <<settled, gen, csv, apiCall, chatVars>>

\* The inter-side delay of run r elapses: remoteGenerateFn is called.
CompareSideDelayDone(r) ==
  /\ runs[r].kind = "compare"
  /\ runs[r].pc = "sideDelay"
  /\ currentMode' = "remote"
  /\ runs' = [runs EXCEPT ![r].pc = "remoteGen", ![r].log = Issued(runs[r], "remote")]
  /\ UNCHANGED <<results, comparisonResults, isRunning, isComparing,
                 currentPromptIndex, hasHydrated, nextRun, clears, sinkVars,
                 appVars, engineVars>>
  /\ UNCHANGED <<settled, gen, csv, apiCall, chatVars>>

\* setResults((prev) => [...prev, ...newBenchmarkResults]) after the loop.
PublishComparison(prev, newResults) == prev \o newResults

\* remoteGenerateFn of run r settles: fill remote/remoteResponse and push a
\* result, or fill remoteError; then the pacing delay, or after the last
\* prompt publish, persist and leave.
CompareRemoteReturn(r, out) ==
  LET run == runs[r]
      metrics == MetricsOf(out, r)
      pushed == Pushed(run, "remote", metrics, TextOf(out), r)
      ran == [run EXCEPT !.log = Returned(run, out)]
  IN
  /\ run.kind = "compare"
  /\ run.pc = "remoteGen"
  /\ IF CompareAborts("remote", out)
     THEN CompareAbort(r, ran)
     ELSE /\ comparisonResults' =
               IF out = "fail"
               THEN SetRemoteError(comparisonResults, run.i, ErrorOf(out))
               ELSE SetRemote(comparisonResults, run.i, metrics, TextOf(out))
          /\ IF run.i < NumPrompts
             THEN /\ runs' = [runs EXCEPT ![r] =
                       [ran EXCEPT !.newResults = pushed, !.pc = "promptDelay"]]
                  /\ UNCHANGED <<results, isComparing, pending>>
             ELSE /\ runs' = [runs EXCEPT ![r] =
                       [ran EXCEPT !.newResults = pushed, !.pc = "done"]]
                  /\ results' = PublishComparison(results, pushed)
                  /\ pending' = WithSave(pending, r, pushed)
                  /\ isComparing' = BusyAfter(FALSE)
  /\ UNCHANGED <<isRunning, currentPromptIndex, currentMode, hasHydrated,
                 nextRun, clears, sinkStore, appVars, engineVars>>
  /\ UNCHANGED <<settled, gen, csv, apiCall, chatVars>>

\* The pacing delay of run r elapses: the loop goes on to the next prompt.
ComparePromptDelayDone(r) ==
  LET run == runs[r] IN
  /\ run.kind = "compare"
  /\ run.pc = "promptDelay"
  /\ currentPromptIndex' = run.i
  /\ currentMode' = IF run.isLocalReady THEN "local" ELSE "remote"
  /\ runs' = [runs EXCEPT ![r] = EnterPrompt([run EXCEPT !.i = run.i + 1])]
  /\ UNCHANGED <<results, comparisonResults, isRunning, isComparing, hasHydrated,
                 nextRun, clears, sinkVars, appVars, engineVars>>
  /\ UNCHANGED <<settled, gen, csv, apiCall, chatVars>>

\* ------------------------------------------------ useBenchmark: clearResults
\* clearResults up to its await of the sink's clear.
clearResults ==
  /\ clears < MaxClears
  /\ clears' = clears + 1
  /\ results' = <<>>
  /\ comparisonResults' = <<>>
  /\ pending' = pending \cup {[op |-> "clear", id |-> clears + 1, batch |-> <<>>]}
  /\ UNCHANGED <<isRunning, isComparing, currentPromptIndex, currentMode,
                 hasHydrated, runs, nextRun, sinkStore>>
  /\ UNCHANGED <<settled, gen, csv, apiCall, chatVars>>


\* ------------------------------------------------------------ the result sink
\* A result persisted by an earlier session.
PriorResult == BenchmarkResult(1, "remote", "m0", "text", 0)

\* How a promise settles.
Outcomes == {"resolved", "rejected"}

\* A promise chain of the orchestrator has settled, the sink having answered
\* its request successfully (ok) or not.
Settle(op, ok, outcome) == settled \cup {[op |-> op, ok |-> ok, outcome |-> outcome]}

\* saveBenchmarkResults(results): its try/catch turns every failure into the
\* return value 0, so the promise always resolves (with the saved count).
saveBenchmarkResults(batch, ok) ==
  [outcome |-> "resolved", saved |-> IF ok THEN Len(batch) ELSE 0]

\* POST /api/benchmarks is answered: the batch is stored, or the request fails
\* (saveBenchmarkResults then returns 0; its caller only logs the count).
SaveDone(req, ok) ==
  /\ req \in pending
  /\ req.op = "save"
  /\ pending' = pending \ {req}
  /\ sinkStore' = IF ok THEN sinkStore \o req.batch ELSE sinkStore
  /\ settled' = Settle("save", ok, saveBenchmarkResults(req.batch, ok).outcome)
  /\ UNCHANGED <<benchVars, runVars, appVars, engineVars, gen, csv, apiCall, chatVars>>

\* clearBenchmarkResults(): its catch block logs and rethrows.
clearBenchmarkResults(ok) == IF ok THEN "resolved" ELSE "rejected"

\* Mutant: clearResults awaits the sink outside any try/catch.
clearResultsSettles_NoCatch(api) == api

\* clearResults awaits clearBenchmarksAPI() inside try/catch: a rejection is
\* logged and the call returns normally.
clearResultsSettles(api) == "resolved"

\* DELETE /api/benchmarks is answered: the store is emptied, or the request
\* fails (clearBenchmarkResults rethrows, clearResults catches and logs).
ClearDone(req, ok) ==
  /\ req \in pending
  /\ req.op = "clear"
  /\ pending' = pending \ {req}
  /\ sinkStore' = IF ok THEN <<>> ELSE sinkStore
  /\ settled' = Settle("clear", ok, clearResultsSettles(clearBenchmarkResults(ok)))
  /\ UNCHANGED <<benchVars, runVars, appVars, engineVars, gen, csv, apiCall, chatVars>>

\* fetchBenchmarkResults(): the stored results, or [] on any failure (its
\* try/catch returns [], so the promise always resolves).
Fetched(store, ok) == IF ok THEN store ELSE <<>>

\* The mount effect's fetch resolves: a non-empty answer replaces results.
HydrateDone(req, ok) ==
  LET loaded == Fetched(sinkStore, ok) IN
  /\ req \in pending
  /\ req.op = "fetch"
  /\ pending' = pending \ {req}
  /\ results' = IF Len(loaded) > 0 THEN loaded ELSE results
  /\ hasHydrated' = TRUE
  /\ settled' = Settle("hydrate", ok, "resolved")
  /\ UNCHANGED <<comparisonResults, isRunning, isComparing, currentPromptIndex,
                 currentMode, runVars, sinkStore, appVars, engineVars, gen, csv, apiCall, chatVars>>

\* ------------------------------------------------------------------ useWebLLM
\* initEngine() up to its await of eng.reload(): at most one attempt.
\* The log of initEngine calls after one more call that did what.
Logged(what) == IF Len(initLog) < MaxInits THEN Append(initLog, what) ELSE initLog

\* The guard never holds a call back.
AlreadyTried_Never == FALSE

\* `hasTriedInitRef.current`
AlreadyTried == hasTriedInit

initEngine ==
  IF AlreadyTried
  THEN /\ initLog' = Logged("skip")
       /\ UNCHANGED <<engine, isInitialized, engLoading, hasTriedInit, loads>>
  ELSE /\ hasTriedInit' = TRUE
       /\ engLoading' = TRUE
       /\ loads' = loads + 1
       /\ initLog' = Logged("load")
       /\ UNCHANGED <<engine, isInitialized>>

\* eng.reload() resolves.
EngineLoaded ==
  /\ loads > 0
  /\ loads' = loads - 1
  /\ engine' = "engine"
  /\ isInitialized' = TRUE
  /\ engLoading' = FALSE
  /\ UNCHANGED <<hasTriedInit, initLog, benchVars, runVars, sinkVars, appVars>>
  /\ UNCHANGED <<settled, gen, csv, apiCall, chatVars>>

\* The catch block clears the guard, so that a later call tries again.
GuardAfterFailure_Cleared == FALSE

\* hasTriedInitRef.current after the catch block: it is not touched.
GuardAfterFailure == hasTriedInit

\* eng.reload() rejects: the catch and finally blocks run and leave
\* hasTriedInitRef set.  isLoading going back to false re-runs the App's
\* init effect, whose condition holds again in local mode: it calls
\* initEngine once more, and the guard returns.  The hook's error reaches
\* the App's banner through the effect on webLLMError.
EngineLoadFailed ==
  /\ loads > 0
  /\ loads' = loads - 1
  /\ isInitialized' = FALSE
  /\ engLoading' = FALSE
  /\ hasTriedInit' = GuardAfterFailure
  /\ initLog' = IF mode = "local" THEN Logged("skip") ELSE initLog
  /\ error' = ErrorMessage
  /\ UNCHANGED <<messagesByMode, hasHydratedLocal, historyLoads,
                 localDB, localSaves, localWrites>>
  /\ UNCHANGED <<engine, benchVars, runVars, sinkVars, appVars>>
  /\ UNCHANGED <<settled, gen, csv, apiCall>>

\* resetEngine(): the engine and the initialized flag are dropped and the
\* guard of initEngine is opened again; isLoading and a load in flight are
\* not touched.
resetEngine ==
  /\ engine' = NULL
  /\ isInitialized' = FALSE
  /\ hasTriedInit' = FALSE
  /\ UNCHANGED <<engLoading, initLog, loads>>

\* clearModelCache() after its await of deleteModelAllInfoInCache: on
\* success the same assignments as resetEngine; on failure the hook's error
\* is set (it reaches the App's banner) and the error is thrown again.
clearModelCache(ok) ==
  IF ok
  THEN /\ resetEngine
       /\ UNCHANGED error
  ELSE /\ error' = ErrorMessage
       /\ UNCHANGED engineVars

\* ------------------------------------------------------------------------ App
\* setMode(m), with the effect that initializes the local engine when the
\* mode is local and no engine is there or loading.
modeChanged(m) ==
  /\ mode' = m
  /\ IF m = "local" /\ ~isInitialized /\ ~engLoading /\ engine = NULL
     THEN initEngine
     ELSE UNCHANGED engineVars

\* ModeSelector's onModeChange.
SetMode(m) ==
  /\ m # mode
  /\ modeChanged(m)
  /\ UNCHANGED <<isLoading, chat, sends, benchVars, runVars, sinkVars>>
  /\ UNCHANGED <<settled, gen, csv, apiCall, chatVars>>

\* ChatInput's disabled prop.
ChatInputDisabled == isLoading \/ (mode = "local" /\ ~isInitialized)

\* The messages handleSend builds for its n-th call: the user's, and the
\* assistant's with the id that follows.
UserMessage(n) == [id |-> 2 * n, role |-> "user", content |-> "sent"]
AssistantMessage(n) == [id |-> 2 * n + 1, role |-> "assistant", content |-> "reply"]

\* The save effect after a render: it runs when messagesByMode.local (the
\* array, compared by reference) or hasHydratedLocal has changed, returns at
\* once before the local transcript is hydrated, and otherwise calls
\* saveLocalMessages with the list of this render.
SaveAllowed_Always(hydrated) == TRUE

SaveAllowed(hydrated) == hydrated

saveEffect(depsChanged, hydrated) ==
  IF depsChanged /\ SaveAllowed(hydrated)
  THEN /\ localSaves' = Append(localSaves, messagesByMode'.local)
       /\ localWrites' = localWrites \cup
            {[op |-> "put", id |-> Len(localSaves) + 1, value |-> messagesByMode'.local]}
  ELSE UNCHANGED <<localSaves, localWrites>>

\* handleSend(content) up to its await of the generate call: the user's
\* message goes to the list of the selected mode, kept as modeKey.
handleSend ==
  /\ sends < MaxSends
  /\ sends' = sends + 1
  /\ messagesByMode' =
       [messagesByMode EXCEPT ![mode] = Append(@, UserMessage(sends + 1))]
  /\ IF mode = "local" /\ (~isInitialized \/ engine = NULL)
     THEN /\ isLoading' = FALSE
          /\ error' = ErrorMessage
          /\ UNCHANGED chat
     ELSE /\ isLoading' = TRUE
          /\ error' = NULL
          /\ chat' = [pc |-> "gen", modeKey |-> mode]
  /\ saveEffect(mode = "local", hasHydratedLocal)
  /\ UNCHANGED <<hasHydratedLocal, historyLoads, localDB>>
  /\ UNCHANGED <<mode, benchVars, runVars, sinkVars, engineVars>>
  /\ UNCHANGED <<settled, gen, csv, apiCall>>

\* The user submits a message through ChatInput.
Send ==
  /\ ~ChatInputDisabled
  /\ handleSend

\* The reply goes to the list of the mode that is selected when it arrives.
ReplyKey_Current == mode

\* `[modeKey]` of the second setMessagesByMode: the mode the send started in.
ReplyKey == chat.modeKey

\* The chat's generate call settles: a text is appended as the assistant's
\* message, a failure sets the error, and the finally block clears isLoading.
ChatGenReturn(out) ==
  /\ chat.pc = "gen"
  /\ chat' = [chat EXCEPT !.pc = "idle"]
  /\ isLoading' = FALSE
  /\ messagesByMode' =
       IF out = "text"
       THEN [messagesByMode EXCEPT ![ReplyKey] = Append(@, AssistantMessage(sends))]
       ELSE messagesByMode
  /\ error' = IF out = "text" THEN error ELSE ErrorMessage
  /\ saveEffect(out = "text" /\ ReplyKey = "local", hasHydratedLocal)
  /\ UNCHANGED <<hasHydratedLocal, historyLoads, localDB>>
  /\ UNCHANGED <<mode, sends, benchVars, runVars, sinkVars, engineVars>>
  /\ UNCHANGED <<settled, gen, csv, apiCall>>

\* handleRunBenchmark(testMode): a local run without an initialized engine
\* switches to local mode, and gives up when there is no engine at all;
\* otherwise runBenchmarkSuite starts.
handleRunBenchmark(testMode) ==
  IF testMode = "local" /\ ~isInitialized
  THEN /\ modeChanged("local")
       /\ UNCHANGED <<isLoading, chat, sends>>
       /\ IF engine = NULL
          THEN UNCHANGED <<benchVars, runVars, sinkVars, settled, gen, csv, apiCall, chatVars>>
          ELSE runBenchmarkSuite(testMode)
  ELSE /\ runBenchmarkSuite(testMode)
       /\ UNCHANGED <<appVars, engineVars>>

\* ---------------------------------------------------------- BenchmarkDashboard
\* The isLocalReady prop the App hands to the dashboard and to the run.
isLocalReady == isInitialized /\ engine # NULL

\* disabled= of the "Run Comparison" button.
RunComparisonDisabled == isRunning \/ isComparing \/ ~isLocalReady

\* disabled= of the "Local Only" button.
LocalOnlyDisabled == isRunning \/ isComparing \/ ~isLocalReady

\* Mutant: the button looks at isRunning only.
RemoteOnlyDisabled_IgnoresComparing == isRunning

\* disabled= of the "Remote Only" button.
RemoteOnlyDisabled == isRunning \/ isComparing

\* onRunComparison: the App's handler calling runComparisonBenchmark.
handleRunComparison ==
  /\ runComparisonBenchmark(isLocalReady)
  /\ UNCHANGED <<appVars, engineVars>>

ClickRunComparison ==
  /\ ~RunComparisonDisabled
  /\ handleRunComparison

ClickLocalOnly ==
  /\ ~LocalOnlyDisabled
  /\ handleRunBenchmark("local")

ClickRemoteOnly ==
  /\ ~RemoteOnlyDisabled
  /\ handleRunBenchmark("remote")

\* The "Clear" button is never disabled.
ClickClear ==
  /\ clearResults
  /\ UNCHANGED <<appVars, engineVars>>

\* ------------------------------------------------------------ generate calls
\* A text is a sequence of characters; a fragment's content is empty or not.
Contents == {<<>>, <<"a">>}

\* The usage figures a fragment can carry (none, or completion_tokens).
Usages == {NoUsage} \cup (0..MaxUsage)

\* The chunks engine.chat.completions.create streams: a delta (possibly
\* empty) and, possibly, a usage figure.
LocalChunks ==
  {[kind |-> "data", content |-> c, usage |-> u, at |-> 0] :
     c \in Contents, u \in Usages}

\* The lines of the remote SSE stream: a data line with parsable JSON (a
\* delta, possibly empty, and possibly a usage figure), the [DONE] line, and
\* a line that is no data line or whose JSON does not parse; content is then
\* the text such a line carries between its broken brackets, if any.
RemoteLines ==
  {[kind |-> "data", content |-> c, usage |-> u, at |-> 0] :
     c \in Contents, u \in Usages}
    \cup {[kind |-> "done", content |-> <<>>, usage |-> NoUsage, at |-> 0]}
    \cup {[kind |-> "junk", content |-> c, usage |-> NoUsage, at |-> 0] :
            c \in Contents}

\* Every line's text is taken for content.
ParsedContent_Lenient(line) == line.content

\* parsed.choices?.[0]?.delta?.content of a line: only a line that starts
\* with "data: ", is not [DONE] and parses has any; a parse error is caught
\* and the line skipped.
ParsedContent(line) == IF line.kind = "data" THEN line.content ELSE <<>>

\* The roles of a Message.
Roles == {"user", "assistant", "system"}

\* The conversation histories a caller can pass: Message objects (id, role,
\* content) in order, of any role.
Histories ==
  UNION {[1..n -> [id : {"id"}, role : Roles, content : {"q", "r"}]] :
           n \in 0..MaxHistory}

\* The history the benchmark passes: the prompt as one user message.
PromptHistory == <<[id |-> "id", role |-> "user", content |-> "q"]>>

\* `.map((m) => ({ role: m.role, content: m.content }))`
ApiMessages(h) == [k \in 1..Len(h) |-> [role |-> h[k].role, content |-> h[k].content]]

\* `.filter((msg) => msg.role !== "system")`
NonSystem(h) == SelectSeq(h, LAMBDA m : m.role # "system")

\* The system messages the two backends put first.
LocalPreamble == [role |-> "system", content |-> "You are a helpful, respectful and honest assistant."]
RemotePreamble == [role |-> "system", content |-> "You are a helpful AI assistant. ..."]

\* The messages useWebLLM's generate passes to engine.chat.completions.create:
\* the preamble, then the whole history.
LocalMessages(h) == <<LocalPreamble>> \o ApiMessages(h)

\* The messages generateRemoteResponse posts: the preamble, then the history
\* without its system messages.
RemoteMessages(h) == <<RemotePreamble>> \o ApiMessages(NonSystem(h))

\* tokens / (ms / 1000) as an exact fraction.
Rate(tokens, ms) == [num |-> tokens * 1000, den |-> ms]
NoRate == [num |-> 0, den |-> 1]

\* Math.max
Max(a, b) == IF a >= b THEN a ELSE b

\* The metrics generateRemoteResponse passes to onMetrics.  firstTokenTime is
\* tested for truthiness, so a captured reading of 0 counts as none.
RemoteMetrics(start, first, end, tokenCount) ==
  LET totalTime == end - start IN
  [ttftMs |-> IF first # NoTime /\ first # 0 THEN first - start ELSE 0,
   totalTimeMs |-> totalTime,
   tokensPerSec |-> IF totalTime > 0 THEN Rate(tokenCount, totalTime) ELSE NoRate,
   tokenCount |-> tokenCount]

\* The metrics useWebLLM's generate passes to onMetrics.
LocalMetrics(start, first, end, usage) ==
  LET totalTimeMs == end - start
      completionTokens == IF usage = NoUsage THEN 0 ELSE usage
  IN
  [ttftMs |-> IF first # NoTime THEN first - start ELSE 0,
   totalTimeMs |-> totalTimeMs,
   tokensPerSec |->
     IF first # NoTime /\ completionTokens >= 2
     THEN Rate(completionTokens - 1, Max(1, end - first))
     ELSE IF completionTokens > 0 /\ totalTimeMs > 0
     THEN Rate(completionTokens, totalTimeMs)
     ELSE NoRate,
   tokenCount |-> completionTokens]

\* Mutant: the first-content time is captured at the first fragment, with
\* content or without.
CapturesFirst_AnyFragment(first, content) == first = NoTime

\* `firstContentTime === null && delta.length > 0` (local), and
\* `if (content) { if (firstTokenTime === null) ...` (remote).
CapturesFirst(first, content) == first = NoTime /\ content # <<>>

\* Mutant: onUpdate is given the fragment, not the accumulated text.
UpdateValue_Delta(fullText, delta) == delta

\* onUpdate(fullText), called right after `fullText += delta`.
UpdateValue(fullText, delta) == fullText

\* Mutant: the failure path reports the metrics gathered so far.
OnFailure_PartialMetrics(g) ==
  [g EXCEPT !.pc = "failed", !.end = g.now,
            !.emitted = Append(@, RemoteMetrics(g.start, g.first, g.now, g.tokenCount))]

\* The call rejects: the throw leaves the function (the remote catch block
\* rethrows), onMetrics not having been reached.
OnFailure(g) == [g EXCEPT !.pc = "failed", !.end = g.now]

\* The call reads the clock, passes the metrics to onMetrics and returns
\* fullText.
OnReturn(g, metrics) ==
  [g EXCEPT !.pc = "returned", !.end = g.now,
            !.emitted = Append(@, metrics), !.returned = g.fullText]

\* The rest of the program does not move while the call is looked at.
GenFrame == UNCHANGED <<benchVars, runVars, sinkVars, appVars, engineVars, settled, csv, apiCall, chatVars>>

\* performance.now() advances.
Tick ==
  /\ gen.pc \notin {"idle", "returned", "failed"}
  /\ gen.now < MaxTime
  /\ gen' = [gen EXCEPT !.now = @ + 1]
  /\ GenFrame

\* The guard is never taken.
NotInitialized_Never == FALSE

\* `!engine || !isInitialized`
NotInitialized == engine = NULL \/ ~isInitialized

\* generate(conversationHistory, onUpdate, onMetrics) of useWebLLM up to its
\* first await: it throws at once when there is no initialized engine.
generate(conversationHistory) ==
  LET call == [gen EXCEPT !.backend = "local", !.history = conversationHistory] IN
  /\ gen.pc = "idle"
  /\ gen' = IF NotInitialized
            THEN OnFailure(call)
            ELSE [call EXCEPT !.pc = "reset"]
  /\ GenFrame

\* engine.resetChat(false) settles; startTime is read after it, the message
\* list is built and create is called with it.
ResetChatDone(ok) ==
  /\ gen.backend = "local"
  /\ gen.pc = "reset"
  /\ gen' = IF ok THEN [gen EXCEPT !.pc = "create", !.start = gen.now,
                                   !.sent = LocalMessages(gen.history)]
                  ELSE OnFailure(gen)
  /\ GenFrame

\* engine.chat.completions.create(...) settles.
CreateDone(ok) ==
  /\ gen.backend = "local"
  /\ gen.pc = "create"
  /\ gen' = IF ok THEN [gen EXCEPT !.pc = "stream"] ELSE OnFailure(gen)
  /\ GenFrame

\* One iteration of `for await (const chunk of stream)`.
LocalChunk(chunk) ==
  LET delta == chunk.content
      text == gen.fullText \o delta
  IN
  /\ gen.backend = "local"
  /\ gen.pc = "stream"
  /\ Len(gen.frags) < MaxFrags
  /\ gen' = [gen EXCEPT
       !.frags = Append(@, [chunk EXCEPT !.at = gen.now]),
       !.first = IF CapturesFirst(gen.first, delta) THEN gen.now ELSE @,
       !.fullText = text,
       !.updates = IF delta # <<>> THEN Append(@, UpdateValue(text, delta)) ELSE @,
       !.usage = IF chunk.usage # NoUsage THEN chunk.usage ELSE @]
  /\ GenFrame

\* The local stream ends: metrics from the usage figure, then return.
LocalStreamEnd ==
  /\ gen.backend = "local"
  /\ gen.pc = "stream"
  /\ gen' = OnReturn(gen, LocalMetrics(gen.start, gen.first, gen.now, gen.usage))
  /\ GenFrame

\* generateRemoteResponse(conversationHistory, onUpdate, onMetrics) up to its
\* await of fetch: startTime is read first, the payload is built and posted.
generateRemoteResponse(conversationHistory) ==
  /\ gen.pc = "idle"
  /\ gen' = [gen EXCEPT !.backend = "remote", !.pc = "fetch", !.start = gen.now,
                        !.history = conversationHistory,
                        !.sent = RemoteMessages(conversationHistory)]
  /\ GenFrame

\* How the POST to /api/chat is answered.
Responses == {"ok", "notOk", "noBody", "networkError"}

\* fetch settles: anything but an ok response with a body is thrown.
FetchDone(resp) ==
  /\ gen.backend = "remote"
  /\ gen.pc = "fetch"
  /\ gen' = IF resp = "ok" THEN [gen EXCEPT !.pc = "stream"] ELSE OnFailure(gen)
  /\ GenFrame

\* One line of the remote stream is handled: only a data line that parses
\* and has content counts, appends and updates; the rest is skipped.
RemoteLine(line) ==
  LET content == ParsedContent(line)
      text == gen.fullText \o content
  IN
  /\ gen.backend = "remote"
  /\ gen.pc = "stream"
  /\ Len(gen.frags) < MaxFrags
  /\ gen' = [gen EXCEPT
       !.frags = Append(@, [line EXCEPT !.at = gen.now]),
       !.first = IF CapturesFirst(gen.first, content) THEN gen.now ELSE @,
       !.tokenCount = IF content # <<>> THEN @ + 1 ELSE @,
       !.fullText = text,
       !.updates = IF content # <<>> THEN Append(@, UpdateValue(text, content)) ELSE @]
  /\ GenFrame

\* reader.read() reports done: metrics from the fragment count, then return.
RemoteStreamEnd ==
  /\ gen.backend = "remote"
  /\ gen.pc = "stream"
  /\ gen' = OnReturn(gen, RemoteMetrics(gen.start, gen.first, gen.now, gen.tokenCount))
  /\ GenFrame

\* The stream breaks (the iterator or reader.read() rejects).
StreamBreak ==
  /\ gen.pc = "stream"
  /\ gen' = OnFailure(gen)
  /\ GenFrame

\* ------------------------------------------------------ useBenchmark: CSV
\* A text is a sequence of pieces: a double quote, a line break, a comma, or
\* a run of other characters.
DQ == "\""
NL == "\n"
Comma == ","

\* The prompt and response texts the export is given.
CsvTexts == UNION {[1..n -> {"a", DQ, NL, Comma}] : n \in 0..MaxText}

\* The quotes are left as they are.
EscapeQuotes_None(text) == text

\* text.replace(/"/g, '""')
RECURSIVE EscapeQuotes(_)
EscapeQuotes(text) ==
  IF text = <<>> THEN <<>>
  ELSE (IF Head(text) = DQ THEN <<DQ, DQ>> ELSE <<Head(text)>>)
         \o EscapeQuotes(Tail(text))

\* `"${...}"`
Quoted(text) == <<DQ>> \o EscapeQuotes(text) \o <<DQ>>

\* Number.prototype.toFixed(2) of num/den, rounding half up.
ToFixed2(num, den) ==
  LET cents == (200 * num + den) \div (2 * den)
      frac == cents % 100
  IN ToString(cents \div 100) \o "."
       \o (IF frac < 10 THEN "0" ELSE "") \o ToString(frac)

\* Array.prototype.join
RECURSIVE Join(_, _)
Join(cells, sep) ==
  IF cells = <<>> THEN <<>>
  ELSE IF Len(cells) = 1 THEN cells[1]
  ELSE cells[1] \o <<sep>> \o Join(Tail(cells), sep)

\* The header cells.
Headers ==
  <<<<"Timestamp">>, <<"Mode">>, <<"Model">>, <<"Prompt Type">>, <<"Prompt">>,
    <<"Response">>, <<"TTFT (ms)">>, <<"Total Time (ms)">>, <<"Tokens/Sec">>,
    <<"Token Count">>>>

\* The cells of one result's row: only the prompt and the response are
\* quoted.
Row(r) ==
  <<<<r.timestamp>>, <<r.mode>>, <<r.modelName>>, <<r.promptType>>,
    Quoted(r.promptText), Quoted(r.response),
    <<ToFixed2(r.metrics.ttftMs, 1)>>, <<ToFixed2(r.metrics.totalTimeMs, 1)>>,
    <<ToFixed2(r.metrics.tokensPerSec.num, r.metrics.tokensPerSec.den)>>,
    <<ToString(r.metrics.tokenCount)>>>>

\* [headers.join(","), ...rows.map((row) => row.join(","))].join("\n")
CsvContent(rs) ==
  Join(<<Join(Headers, Comma)>> \o [k \in 1..Len(rs) |-> Join(Row(rs[k]), Comma)], NL)

\* downloadCSV(): nothing for an empty collection, else one file.
downloadCSV ==
  /\ Len(csv) < MaxDownloads
  /\ csv' = IF Len(results) = 0 THEN csv ELSE Append(csv, CsvContent(results))
  /\ UNCHANGED <<benchVars, runVars, sinkVars, appVars, engineVars, settled, gen, apiCall,
                 chatVars>>

\* A BenchmarkResult as the export reads it.
CsvResult(promptText, response) ==
  [timestamp |-> "2025-01-01T00:00:00.000Z", mode |-> "remote",
   modelName |-> "Remote (7B)", promptType |-> "short",
   promptText |-> promptText, response |-> response,
   metrics |-> RemoteMetrics(0, 1, 3, 1)]

\* ------------------------------------------- remoteApi: the stream's chunks
\* The pieces of a response body: the "data: " prefix, a JSON object with
\* content "a" in two halves, the [DONE] marker and the line break.
DataPrefix == "data: "
JsonHead == "{json"
JsonTail == "json}"
DoneMark == "[DONE]"

\* The lines a server sends: a content event, an event cut off inside its
\* JSON, the [DONE] line and a blank line.
EventLine == <<DataPrefix, JsonHead, JsonTail>>
BodyLines == {EventLine, <<DataPrefix, JsonHead>>, <<DataPrefix, DoneMark>>, <<>>}

\* The lines joined, each followed by a line break, the last one only when
\* the body is terminated.
RECURSIVE BodyOf(_, _)
BodyOf(lines, terminated) ==
  IF lines = <<>> THEN <<>>
  ELSE IF Len(lines) = 1 THEN lines[1] \o (IF terminated THEN <<NL>> ELSE <<>>)
  ELSE lines[1] \o <<NL>> \o BodyOf(Tail(lines), terminated)

\* The response bodies: up to MaxLines lines, the last one followed by a
\* line break or not.
Bodies ==
  {BodyOf(lines, t) :
     lines \in UNION {[1..n -> BodyLines] : n \in 0..MaxLines}, t \in BOOLEAN}

\* buffer.split("\n"): the segments between line breaks, the last one being
\* what follows the last line break.
RECURSIVE SplitNL(_, _)
SplitNL(text, seg) ==
  IF text = <<>> THEN <<seg>>
  ELSE IF Head(text) = NL THEN <<seg>> \o SplitNL(Tail(text), <<>>)
  ELSE SplitNL(Tail(text), Append(seg, Head(text)))

\* The content of a line: it starts with "data: ", what follows is not
\* [DONE] and parses; anything else has none.
EventContent(line) ==
  IF line # <<>> /\ Head(line) = DataPrefix /\ Tail(line) = <<JsonHead, JsonTail>>
  THEN <<"a">>
  ELSE <<>>

\* The body of the `for (const line of lines)` loop.
ProcessLine(g, line) ==
  LET content == EventContent(line)
      text == g.fullText \o content
  IN [g EXCEPT
       !.first = IF CapturesFirst(g.first, content) THEN g.now ELSE @,
       !.tokenCount = IF content # <<>> THEN @ + 1 ELSE @,
       !.fullText = text,
       !.updates = IF content # <<>> THEN Append(@, UpdateValue(text, content)) ELSE @]

RECURSIVE ProcessLines(_, _)
ProcessLines(g, lines) ==
  IF lines = <<>> THEN g
  ELSE ProcessLines(ProcessLine(g, Head(lines)), Tail(lines))

\* The unfinished line is thrown away between reads.
Carry_Dropped(rest) == <<>>

\* `buffer = lines.pop() || ""`: what follows the last line break is kept
\* for the next read.
Carry(rest) == rest

\* fetch resolves with an ok response whose body is body.
FetchStreams(body) ==
  /\ gen.backend = "remote"
  /\ gen.pc = "fetch"
  /\ gen' = [gen EXCEPT !.pc = "stream", !.body = body]
  /\ GenFrame

\* reader.read() delivers the next n pieces of the body: they are appended
\* to the buffer, the complete lines are handled and the rest is kept.
ReadChunk(n) ==
  LET chunk == SubSeq(gen.body, gen.pos + 1, gen.pos + n)
      segs == SplitNL(gen.buffer \o chunk, <<>>)
      lines == SubSeq(segs, 1, Len(segs) - 1)
      read == [gen EXCEPT
                 !.pos = @ + n,
                 !.buffer = Carry(segs[Len(segs)]),
                 !.frags = Append(@, [kind |-> "chunk", content |-> chunk,
                                      usage |-> NoUsage, at |-> gen.now])]
  IN
  /\ gen.backend = "remote"
  /\ gen.pc = "stream"
  /\ gen.pos + n <= Len(gen.body)
  /\ gen' = ProcessLines(read, lines)
  /\ GenFrame

\* reader.read() reports done once the body is exhausted: the loop is left
\* and what is in the buffer is not looked at again.
ReadDone ==
  /\ gen.backend = "remote"
  /\ gen.pc = "stream"
  /\ gen.pos = Len(gen.body)
  /\ gen' = OnReturn(gen, RemoteMetrics(gen.start, gen.first, gen.now, gen.tokenCount))
  /\ GenFrame

\* ------------------------------------------- remoteApi: endpoint clients
\* `data.saved` is absent from the body.
NoSaved == -1

\* A list field of a JSON body: absent, or a list.
Absent == [present |-> FALSE, items |-> <<>>]
Present(items) == [present |-> TRUE, items |-> items]

\* A message as /api/chat/history stores it.
StoredMessages ==
  {<<>>, <<[role |-> "system", content |-> "s"], [role |-> "user", content |-> "q"]>>}

\* The answers of the server to a request: fetch rejects (network), the
\* status is not ok, the body is no JSON, or the body is an object that can
\* carry an error text, results, messages and a saved count.
ApiResponses ==
  [status : {"ok", "notOk", "networkError"},
   json : BOOLEAN,
   error : {"", "boom"},
   results : {Absent, Present(<<>>), Present(<<PriorResult>>)},
   messages : {Absent} \cup {Present(m) : m \in StoredMessages},
   saved : {NoSaved, 0, 1}]

\* A call ends by returning a value or by throwing.
Returns(value) == [kind |-> "returns", value |-> value]
Throws == [kind |-> "throws", value |-> "error"]

\* The body of the answer reaches the code: fetch resolved, response.ok
\* holds and response.json() resolved.
BodyRead(resp) == resp.status = "ok" /\ resp.json

\* An error field is thrown like a failed request.
SoftError_Thrown(resp) == FALSE

\* `if (data.error)` of the fetch and save clients: the warning branch.
SoftError(resp) == resp.error # ""

\* The messages fetchRemoteChatHistory builds from data.messages.
HistoryMessages(items) ==
  LET shown == SelectSeq(items, LAMBDA m : m.role # "system") IN
  [k \in 1..Len(shown) |->
     [id |-> k, role |-> shown[k].role, content |-> shown[k].content]]

\* fetchRemoteChatHistory(): every failure is caught and gives [].
FetchRemoteChatHistoryEnds(resp) ==
  IF ~BodyRead(resp) THEN Returns(<<>>)
  ELSE IF resp.error # "" THEN (IF SoftError(resp) THEN Returns(<<>>) ELSE Throws)
  ELSE IF ~resp.messages.present THEN Returns(<<>>)
  ELSE Returns(HistoryMessages(resp.messages.items))

\* clearRemoteChatHistory(): the body is only logged; a failure is rethrown.
ClearRemoteChatHistoryEnds(resp) ==
  IF ~BodyRead(resp) THEN Throws ELSE Returns("undefined")

\* fetchBenchmarkResults(): every failure is caught and gives [].
FetchBenchmarkResultsEnds(resp) ==
  IF ~BodyRead(resp) THEN Returns(<<>>)
  ELSE IF resp.error # "" THEN (IF SoftError(resp) THEN Returns(<<>>) ELSE Throws)
  ELSE Returns(resp.results.items)

\* saveBenchmarkResults(results): every failure is caught and gives 0.
SaveBenchmarkResultsEnds(resp) ==
  IF ~BodyRead(resp) THEN Returns(0)
  ELSE IF resp.error # "" THEN (IF SoftError(resp) THEN Returns(0) ELSE Throws)
  ELSE Returns(IF resp.saved = NoSaved THEN 0 ELSE resp.saved)

\* clearBenchmarkResults(): the body is only logged; a failure is rethrown.
ClearBenchmarkResultsEnds(resp) ==
  IF ~BodyRead(resp) THEN Throws ELSE Returns("undefined")

\* The endpoint clients.
ApiFunctions ==
  {"fetchRemoteChatHistory", "clearRemoteChatHistory", "fetchBenchmarkResults",
   "saveBenchmarkResults", "clearBenchmarkResults"}

ApiEnds(fn, resp) ==
  CASE fn = "fetchRemoteChatHistory" -> FetchRemoteChatHistoryEnds(resp)
    [] fn = "clearRemoteChatHistory" -> ClearRemoteChatHistoryEnds(resp)
    [] fn = "fetchBenchmarkResults" -> FetchBenchmarkResultsEnds(resp)
    [] fn = "saveBenchmarkResults" -> SaveBenchmarkResultsEnds(resp)
    [] fn = "clearBenchmarkResults" -> ClearBenchmarkResultsEnds(resp)

\* One endpoint client is called and the server answers.
CallApi(fn, resp) ==
  /\ apiCall = NoApiCall
  /\ apiCall' = [fn |-> fn, resp |-> resp, ends |-> ApiEnds(fn, resp)]
  /\ UNCHANGED <<benchVars, runVars, sinkVars, appVars, engineVars, settled, gen, csv,
                 chatVars>>

\* ------------------------------------------------------- chat transcripts
\* What IndexedDB holds under the key "local" when the App mounts: nothing,
\* or the transcript an earlier session saved.
StoredTranscripts ==
  {<<>>, <<[id |-> 0, role |-> "user", content |-> "q"],
          [id |-> 1, role |-> "assistant", content |-> "a"]>>}

\* loadLocalMessages(): the stored list, or [] when nothing is stored or on
\* any failure (its catch returns []), so the promise always resolves.
loadLocalMessages(ok) == IF ok THEN localDB ELSE <<>>

\* The mount effect's loadLocalMessages() resolves: the local list is
\* replaced by what was loaded and hasHydratedLocal is set.
LocalHistoryLoaded(ok) ==
  /\ "local" \in historyLoads
  /\ historyLoads' = historyLoads \ {"local"}
  /\ messagesByMode' = [messagesByMode EXCEPT !.local = loadLocalMessages(ok)]
  /\ hasHydratedLocal' = TRUE
  /\ saveEffect(TRUE, TRUE)
  /\ UNCHANGED <<error, localDB>>
  /\ UNCHANGED <<benchVars, runVars, sinkVars, appVars, engineVars>>
  /\ UNCHANGED <<settled, gen, csv, apiCall>>

\* What fetchRemoteChatHistory() can resolve with.
RemoteLoads == {FetchRemoteChatHistoryEnds(resp).value : resp \in ApiResponses}

\* The mount effect's fetchRemoteChatHistory() resolves: the remote list is
\* replaced by what was loaded.
RemoteHistoryLoaded(loaded) ==
  /\ "remote" \in historyLoads
  /\ historyLoads' = historyLoads \ {"remote"}
  /\ messagesByMode' = [messagesByMode EXCEPT !.remote = loaded]
  /\ UNCHANGED <<error, hasHydratedLocal, localDB, localSaves, localWrites>>
  /\ UNCHANGED <<benchVars, runVars, sinkVars, appVars, engineVars>>
  /\ UNCHANGED <<settled, gen, csv, apiCall>>

\* handleClearChat(): the selected mode's list is emptied and the error
\* cleared; in local mode clearLocalMessagesFromDB() is started and not
\* awaited, in remote mode the server is asked and a failure only logged.
handleClearChat ==
  /\ Len(localSaves) < MaxSaves
  /\ messagesByMode' = [messagesByMode EXCEPT ![mode] = <<>>]
  /\ error' = NULL
  /\ IF mode = "local"
     THEN /\ localSaves' =
               IF SaveAllowed(hasHydratedLocal)
               THEN Append(localSaves, <<>>) ELSE localSaves
          /\ localWrites' = localWrites
               \cup {[op |-> "delete", id |-> Len(localSaves'), value |-> <<>>]}
               \cup (IF SaveAllowed(hasHydratedLocal)
                     THEN {[op |-> "put", id |-> Len(localSaves'), value |-> <<>>]}
                     ELSE {})
     ELSE UNCHANGED <<localSaves, localWrites>>
  /\ UNCHANGED <<hasHydratedLocal, historyLoads, localDB>>
  /\ UNCHANGED <<benchVars, runVars, sinkVars, appVars, engineVars>>
  /\ UNCHANGED <<settled, gen, csv, apiCall>>

\* A write reaches IndexedDB, in any order with the others: a put stores its
\* list, a delete removes the key, and a failed write (logged by its caller)
\* leaves the store as it is.
LocalWriteDone(w, ok) ==
  /\ w \in localWrites
  /\ localWrites' = localWrites \ {w}
  /\ localDB' = IF ok THEN w.value ELSE localDB
  /\ UNCHANGED <<messagesByMode, error, hasHydratedLocal, historyLoads, localSaves>>
  /\ UNCHANGED <<benchVars, runVars, sinkVars, appVars, engineVars>>
  /\ UNCHANGED <<settled, gen, csv, apiCall>>

\* --------------------------------------------------------------- specification
Init ==
  /\ results = <<>>
  /\ comparisonResults = <<>>
  /\ isRunning = FALSE
  /\ isComparing = FALSE
  /\ currentPromptIndex = 0
  /\ currentMode = "local"
  /\ hasHydrated = FALSE
  /\ runs = [r \in RunIds |-> NoRun]
  /\ nextRun = 0
  /\ clears = 0
  /\ sinkStore \in {<<>>, <<PriorResult>>}
  /\ pending = {[op |-> "fetch", id |-> 0, batch |-> <<>>]}
  /\ mode = "remote"
  /\ isLoading = FALSE
  /\ chat = [pc |-> "idle", modeKey |-> "remote"]
  /\ sends = 0
  /\ engine = NULL
  /\ isInitialized = FALSE
  /\ engLoading = FALSE
  /\ hasTriedInit = FALSE
  /\ initLog = <<>>
  /\ loads = 0
  /\ settled = {}
  /\ gen = NoCall
  /\ csv = <<>>
  /\ apiCall = NoApiCall
  /\ ChatMounted
  /\ localDB = <<>>

\* The steps of the benchmark runs, whoever started them, their generate calls
\* settling with an outcome of outs.
RunSteps(outs) ==
  \/ \E r \in RunIds : SingleDelayDone(r)
  \/ \E r \in RunIds, out \in outs : SingleGenReturn(r, out)
  \/ \E r \in RunIds, out \in outs : CompareLocalReturn(r, out)
  \/ \E r \in RunIds : CompareSideDelayDone(r)
  \/ \E r \in RunIds, out \in outs : CompareRemoteReturn(r, out)
  \/ \E r \in RunIds : ComparePromptDelayDone(r)

\* The answers of the sink to save and clear requests.  They change sinkStore
\* and pending only: the callers' continuations do nothing but log.
SinkSteps ==
  \/ \E req \in pending, ok \in BOOLEAN : SaveDone(req, ok)
  \/ \E req \in pending, ok \in BOOLEAN : ClearDone(req, ok)

Hydration == \E req \in pending, ok \in BOOLEAN : HydrateDone(req, ok)

\* The dashboard: engine initialization, the run buttons and Clear.
Dashboard ==
  \/ \E m \in Modes : SetMode(m)
  \/ EngineLoaded
  \/ EngineLoadFailed
  \/ ClickRunComparison
  \/ ClickLocalOnly
  \/ ClickRemoteOnly
  \/ ClickClear

\* The sink of a first session: nothing stored yet.
InitFresh == Init /\ sinkStore = <<>>

\* The benchmark side of the application: runs are started from the
\* dashboard's buttons.  The chat and the sink's answers are left out: the
\* chat neither reads nor writes what the runs and the dashboard use, and
\* here results is written by the runs and by clearResults only.
Next ==
  \/ RunSteps(GenOutcomes)
  \/ Dashboard

Spec == InitFresh /\ [][Next]_vars

\* The application with its chat: a generate call either returns a text or
\* fails.
NextApp ==
  \/ RunSteps({"text", "fail"})
  \/ Dashboard
  \/ Send
  \/ \E out \in {"text", "fail"} : ChatGenReturn(out)

SpecApp == InitFresh /\ [][NextApp]_vars

\* The orchestrator alone: its entry points called by any caller, in any state.
CallRunBenchmarkSuite(m) ==
  /\ runBenchmarkSuite(m)
  /\ UNCHANGED <<appVars, engineVars>>

CallRunComparisonBenchmark(ready) ==
  /\ runComparisonBenchmark(ready)
  /\ UNCHANGED <<appVars, engineVars>>

NextHook ==
  \/ RunSteps({"text", "fail"})
  \/ \E m \in Modes : CallRunBenchmarkSuite(m)
  \/ \E ready \in BOOLEAN : CallRunComparisonBenchmark(ready)
  \/ ClickClear

SpecHook == InitFresh /\ [][NextHook]_vars

\* The benchmark side of the application when every delay elapses and every
\* generate call settles, with a text or a failure: a step of a run that can
\* be taken is eventually taken.
NextLive ==
  \/ RunSteps({"text", "fail"})
  \/ Dashboard

SpecLive ==
  /\ InitFresh
  /\ [][NextLive]_vars
  /\ WF_vars(RunSteps({"text", "fail"}))

\* The application with initEngine called, besides by the App's effect, by
\* any other caller at any time: before, during and after a load.
CallInitEngine ==
  /\ initEngine
  /\ UNCHANGED <<benchVars, runVars, sinkVars, appVars, settled, gen, csv, apiCall, chatVars>>

NextEngine ==
  \/ NextApp
  \/ CallInitEngine

SpecEngine == InitFresh /\ [][NextEngine]_vars

\* The application with its result sink: the sink holds what an earlier
\* session stored or nothing, the mount effect's fetch is in flight, and every
\* request is answered at some later time, successfully or not.
NextSink ==
  \/ RunSteps({"text", "fail"})
  \/ Dashboard
  \/ SinkSteps
  \/ Hydration

SpecSink == Init /\ [][NextSink]_vars

\* The CSV export of a collection that is empty or holds one result, with
\* any prompt and response text.
InitCsv ==
  /\ comparisonResults = <<>>
  /\ isRunning = FALSE
  /\ isComparing = FALSE
  /\ currentPromptIndex = 0
  /\ currentMode = "local"
  /\ hasHydrated = TRUE
  /\ runs = [r \in RunIds |-> NoRun]
  /\ nextRun = 0
  /\ clears = 0
  /\ sinkStore = <<>>
  /\ pending = {}
  /\ mode = "remote"
  /\ isLoading = FALSE
  /\ chat = [pc |-> "idle", modeKey |-> "remote"]
  /\ sends = 0
  /\ engine = NULL
  /\ isInitialized = FALSE
  /\ engLoading = FALSE
  /\ hasTriedInit = FALSE
  /\ initLog = <<>>
  /\ loads = 0
  /\ settled = {}
  /\ gen = NoCall
  /\ csv = <<>>
  /\ apiCall = NoApiCall
  /\ ChatMounted
  /\ localDB = <<>>
  /\ results \in {<<>>} \cup {<<CsvResult(p, t)>> : p, t \in CsvTexts}

NextCsv == downloadCSV

SpecCsv == InitCsv /\ [][NextCsv]_vars

\* One remote generate call whose response body arrives in chunks of any
\* sizes.
NextChunk ==
  \/ generateRemoteResponse(PromptHistory)
  \/ \E body \in Bodies : FetchStreams(body)
  \/ \E n \in 1..(MaxLines * 4) : ReadChunk(n)
  \/ ReadDone

SpecChunk == InitFresh /\ [][NextChunk]_vars

\* The application's chat from the mount on: IndexedDB holds nothing or an
\* earlier session's transcript, both history loads are in flight and
\* resolve at any time, and the user switches modes, sends and clears.
InitChat ==
  /\ results = <<>>
  /\ comparisonResults = <<>>
  /\ isRunning = FALSE
  /\ isComparing = FALSE
  /\ currentPromptIndex = 0
  /\ currentMode = "local"
  /\ hasHydrated = FALSE
  /\ runs = [r \in RunIds |-> NoRun]
  /\ nextRun = 0
  /\ clears = 0
  /\ sinkStore = <<>>
  /\ pending = {[op |-> "fetch", id |-> 0, batch |-> <<>>]}
  /\ mode = "remote"
  /\ isLoading = FALSE
  /\ chat = [pc |-> "idle", modeKey |-> "remote"]
  /\ sends = 0
  /\ engine = NULL
  /\ isInitialized = FALSE
  /\ engLoading = FALSE
  /\ hasTriedInit = FALSE
  /\ initLog = <<>>
  /\ loads = 0
  /\ settled = {}
  /\ gen = NoCall
  /\ csv = <<>>
  /\ apiCall = NoApiCall
  /\ ChatMounted
  /\ localDB \in StoredTranscripts

NextChat ==
  \/ \E m \in Modes : SetMode(m)
  \/ EngineLoaded
  \/ EngineLoadFailed
  \/ Send
  \/ \E out \in {"text", "fail"} : ChatGenReturn(out)
  \/ \E ok \in BOOLEAN : LocalHistoryLoaded(ok)
  \/ \E loaded \in RemoteLoads : RemoteHistoryLoaded(loaded)
  \/ handleClearChat
  \/ \E w \in localWrites, ok \in BOOLEAN : LocalWriteDone(w, ok)

SpecChat == InitChat /\ [][NextChat]_vars

\* The local engine hook with its three entry points called by any caller at
\* any time, and its loads settling at any time.
CallResetEngine ==
  /\ loads < MaxLoads
  /\ resetEngine
  /\ UNCHANGED <<benchVars, runVars, sinkVars, appVars, settled, gen, csv, apiCall, chatVars>>

CallClearModelCache(ok) ==
  /\ loads < MaxLoads
  /\ clearModelCache(ok)
  /\ UNCHANGED <<messagesByMode, hasHydratedLocal, historyLoads,
                 localDB, localSaves, localWrites>>
  /\ UNCHANGED <<benchVars, runVars, sinkVars, appVars, settled, gen, csv, apiCall>>

NextReset ==
  \/ CallInitEngine
  \/ CallResetEngine
  \/ \E ok \in BOOLEAN : CallClearModelCache(ok)
  \/ EngineLoaded
  \/ EngineLoadFailed

SpecReset == InitFresh /\ [][NextReset]_vars

\* One call of an endpoint client, answered in any way.
NextApi == \E fn \in ApiFunctions, resp \in ApiResponses : CallApi(fn, resp)

SpecApi == InitFresh /\ [][NextApi]_vars

\* The local engine once "local" was selected and eng.reload() resolved.
EngineReady ==
  /\ mode = "local"
  /\ engine = "engine"
  /\ isInitialized = TRUE
  /\ engLoading = FALSE
  /\ hasTriedInit = TRUE
  /\ initLog = <<"load">>
  /\ loads = 0

\* eng.reload() is in flight: "local" was selected and initEngine has run up
\* to its await.
EngineLoading ==
  /\ mode = "local"
  /\ engine = NULL
  /\ isInitialized = FALSE
  /\ engLoading = TRUE
  /\ hasTriedInit = TRUE
  /\ initLog = <<"load">>
  /\ loads = 1

\* eng.reload() rejected: initEngine's catch and finally blocks have run.
EngineFailed ==
  /\ mode = "local"
  /\ engine = NULL
  /\ isInitialized = FALSE
  /\ engLoading = FALSE
  /\ hasTriedInit = TRUE
  /\ initLog = <<"load", "skip">>
  /\ loads = 0

\* One generate call on either backend, made with the engine initialized or
\* without it (never loaded, loading, or failed to load), its stream
\* delivering any fragments and ending or breaking at
\* any point, the clock advancing at any point.
InitGen ==
  /\ results = <<>>
  /\ comparisonResults = <<>>
  /\ isRunning = FALSE
  /\ isComparing = FALSE
  /\ currentPromptIndex = 0
  /\ currentMode = "local"
  /\ hasHydrated = FALSE
  /\ runs = [r \in RunIds |-> NoRun]
  /\ nextRun = 0
  /\ clears = 0
  /\ sinkStore = <<>>
  /\ pending = {[op |-> "fetch", id |-> 0, batch |-> <<>>]}
  /\ isLoading = FALSE
  /\ chat = [pc |-> "idle", modeKey |-> "remote"]
  /\ sends = 0
  /\ settled = {}
  /\ gen = NoCall
  /\ csv = <<>>
  /\ apiCall = NoApiCall
  /\ ChatMounted
  /\ localDB = <<>>
  /\ \/ EngineReady
     \/ EngineLoading
     \/ EngineFailed
     \/ /\ mode = "remote"
        /\ engine = NULL
        /\ isInitialized = FALSE
        /\ engLoading = FALSE
        /\ hasTriedInit = FALSE
        /\ initLog = <<>>
        /\ loads = 0

NextGen ==
  \/ Tick
  \/ generate(PromptHistory)
  \/ \E ok \in BOOLEAN : ResetChatDone(ok)
  \/ \E ok \in BOOLEAN : CreateDone(ok)
  \/ \E chunk \in LocalChunks : LocalChunk(chunk)
  \/ LocalStreamEnd
  \/ generateRemoteResponse(PromptHistory)
  \/ \E resp \in Responses : FetchDone(resp)
  \/ \E line \in RemoteLines : RemoteLine(line)
  \/ RemoteStreamEnd
  \/ StreamBreak

SpecGen == InitGen /\ [][NextGen]_vars

\* One generate call on either backend with any conversation history: what
\* is sent is fixed before the stream is read, so the fragments are taken
\* without usage figures and the clock is left alone.
NextMsg ==
  \/ \E h \in Histories : generate(h)
  \/ \E ok \in BOOLEAN : ResetChatDone(ok)
  \/ \E ok \in BOOLEAN : CreateDone(ok)
  \/ \E chunk \in {c \in LocalChunks : c.usage = NoUsage} : LocalChunk(chunk)
  \/ LocalStreamEnd
  \/ \E h \in Histories : generateRemoteResponse(h)
  \/ \E resp \in Responses : FetchDone(resp)
  \/ \E line \in {l \in RemoteLines : l.usage = NoUsage} : RemoteLine(line)
  \/ RemoteStreamEnd
  \/ StreamBreak

SpecMsg == InitGen /\ [][NextMsg]_vars


\* ====================================================================== claims
\* The pcs at which a run awaits a generate call.
GenPcs == {"gen", "localGen", "remoteGen"}

ComparisonActive == \E r \in RunIds : runs[r].kind = "compare" /\ Active(r)

\* This step is a call of runComparisonBenchmark.
StartsComparison ==
  /\ nextRun' = nextRun + 1
  /\ runs'[nextRun + 1].kind = "compare"

\* Run r leaves its function in this step (its finally block runs).
Finishes(r) == Active(r) /\ runs'[r].pc = "done"

\* The calls of one side in a run's log, and the prompts of a list of calls.
CallsOf(log, side) == SelectSeq(log, LAMBDA c : c.side = side)
PromptsOf(calls) == [k \in 1..Len(calls) |-> calls[k].prompt]
UpTo(n) == [k \in 1..n |-> k]

\* C1: a call of runComparisonBenchmark made while a comparison run is active
\* is a no-op: results, the comparison collection and the busy flags stay as
\* they are and the call issues no generate call.
C1_ReentrantStartIsNoOp ==
  [][(ComparisonActive /\ StartsComparison) =>
       /\ UNCHANGED <<results, comparisonResults, isRunning, isComparing>>
       /\ runs'[nextRun + 1].log = <<>>]_vars

InFlight ==
  Cardinality({r \in RunIds : runs[r].pc \in GenPcs})
    + (IF chat.pc = "gen" THEN 1 ELSE 0)

\* C3: at most one generate call is in flight in the whole system, and in a
\* comparison run every earlier call has settled when the remote call starts.
C3_OneGenerationInFlight ==
  /\ InFlight <= 1
  /\ \A r \in RunIds :
       runs[r].pc = "remoteGen" =>
         \A k \in 1..(Len(runs[r].log) - 1) : runs[r].log[k].out # "inflight"

OutsOf(log, side) == {log[k].out : k \in {j \in 1..Len(log) : log[j].side = side}}

\* The results a finishing run appends in this step.
Appended == SubSeq(results', Len(results) + 1, Len(results'))

\* After a comparison run: N entries, each with localError, remote and
\* remoteResponse set, and exactly N remote-mode results appended.
LocalDownPost ==
  /\ Len(comparisonResults') = NumPrompts
  /\ \A p \in 1..NumPrompts :
       /\ comparisonResults'[p].localError # NULL
       /\ comparisonResults'[p].remote # NULL
       /\ comparisonResults'[p].remoteResponse # NULL
  /\ Len(results') = Len(results) + NumPrompts
  /\ \A k \in 1..Len(Appended) : Appended[k].mode = "remote"
  /\ PromptsOf([k \in 1..Len(Appended) |-> [prompt |-> Appended[k].promptId]])
       = UpTo(NumPrompts)

\* Run r is a comparison run ending in this step, all of whose local calls
\* failed and all of whose remote calls returned.
LocalDownRunEnds(r) ==
  /\ runs[r].kind = "compare"
  /\ Finishes(r)
  /\ OutsOf(runs'[r].log, "local") = {"fail"}
  /\ OutsOf(runs'[r].log, "remote") \subseteq {"text", "empty"}

\* C5 as stated: when a comparison run in which every local call failed and
\* every remote call succeeded ends, the comparison collection has N entries,
\* each with non-null localError, remote and remoteResponse, and the run has
\* appended exactly N remote-mode results and no local-mode one.
C5_LocalDownAsStated ==
  [][\A r \in RunIds : LocalDownRunEnds(r) => LocalDownPost]_vars

\* C5 amended: the same, for a run during which clearResults was not called
\* and whose remote calls all returned a non-empty text.
C5_LocalDownRemoteUp ==
  [][\A r \in RunIds :
       (/\ LocalDownRunEnds(r)
        /\ OutsOf(runs'[r].log, "remote") = {"text"}
        /\ clears = runs[r].clearsAtStart) => LocalDownPost]_vars

\* C5 witness: such a run has ended and the collections are as claimed.
C5_Witness ==
  \E r \in RunIds :
    /\ runs[r].kind = "compare"
    /\ runs[r].pc = "done"
    /\ OutsOf(runs[r].log, "local") = {"fail"}
    /\ OutsOf(runs[r].log, "remote") = {"text"}
    /\ Len(comparisonResults) = NumPrompts
    /\ \A p \in 1..NumPrompts :
         /\ comparisonResults[p].localError # NULL
         /\ comparisonResults[p].remoteResponse # NULL
    /\ Len(results) = NumPrompts
    /\ \A k \in 1..Len(results) : results[k].mode = "remote" /\ results[k].run = r


\* Range of a sequence.
Range(seq) == {seq[k] : k \in 1..Len(seq)}

\* C6: when a single-mode run ends because generateFn failed for prompt k,
\* the results it collected for prompts 1..k-1 are in the published result
\* collection.
C6_PartialResultsRemain ==
  [][\A r \in RunIds :
       (runs[r].kind = "single" /\ Finishes(r)) =>
         Range(runs[r].newResults) \subseteq Range(results')]_vars

\* C7: a single-mode run calls generateFn on the prompts in corpus order, and
\* a failed call is the last call of its run: the run has ended.
C7_SingleFailFast ==
  \A r \in RunIds :
    runs[r].kind = "single" =>
      LET log == runs[r].log IN
      /\ PromptsOf(log) = UpTo(Len(log))
      /\ \A k \in 1..Len(log) :
           log[k].out = "fail" => (k = Len(log) /\ runs[r].pc = "done")

\* C7 witness: a single-mode run that ended on the failure of its first
\* call, the other prompts never attempted.
C7_Witness ==
  \E r \in RunIds :
    /\ runs[r].kind = "single"
    /\ runs[r].pc = "done"
    /\ Len(runs[r].log) = 1
    /\ Len(runs[r].log) < NumPrompts
    /\ runs[r].log[1].out = "fail"

\* C8: while a run (of either mode) has the call for a prompt after the first
\* in flight, the results of its earlier prompts are in the published result
\* collection, and in comparison mode the earlier prompts' entries are filled
\* (clearResults not having been called since the run started).
C8_PublishedIncrementally ==
  \A r \in RunIds :
    (/\ runs[r].pc \in GenPcs
     /\ runs[r].i > 1
     /\ clears = runs[r].clearsAtStart) =>
       /\ \A k \in 1..Len(runs[r].newResults) :
            runs[r].newResults[k].promptId < runs[r].i =>
              runs[r].newResults[k] \in Range(results)
       /\ runs[r].kind = "compare" =>
            \A p \in 1..(runs[r].i - 1) :
              /\ comparisonResults[p].remote # NULL
                   \/ comparisonResults[p].remoteError # NULL

\* C9: when the first generate call of a comparison run is in flight, the
\* comparison collection is the freshly initialized one: one entry per
\* prompt in corpus order, all fields null, nothing left of an earlier run
\* (clearResults not having been called since the run started).
C9_InitialMatrixPublished ==
  \A r \in RunIds :
    (/\ runs[r].kind = "compare"
     /\ Len(runs[r].log) = 1
     /\ runs[r].log[1].out = "inflight"
     /\ clears = runs[r].clearsAtStart) =>
       /\ comparisonResults = InitialResults
       /\ PromptsOf([p \in 1..Len(comparisonResults) |->
                       [prompt |-> comparisonResults[p].promptId]]) = UpTo(NumPrompts)

\* C9 witness: a comparison run has filled the matrix and ended, and a second
\* one has its first call in flight over a fresh matrix.
C9_Witness ==
  \E r1, r2 \in RunIds :
    /\ runs[r1].kind = "compare"
    /\ runs[r1].pc = "done"
    /\ "text" \in OutsOf(runs[r1].log, "remote")
    /\ "fail" \in OutsOf(runs[r1].log, "local")
    /\ runs[r2].kind = "compare"
    /\ Len(runs[r2].log) = 1
    /\ runs[r2].log[1].out = "inflight"
    /\ clears = 0
    /\ comparisonResults = InitialResults

\* The metrics of side `side` of entry p are set and this step keeps them.
Kept(p, side) ==
  /\ p <= Len(comparisonResults')
  /\ comparisonResults'[p][side] = comparisonResults[p][side]

\* C10 as stated: metrics once set stay set, with their value, in every step
\* that is not the start of a fresh comparison run, clearResults included.
C10_MetricsKeptAsStated ==
  [][\A p \in 1..Len(comparisonResults) : \A side \in {"local", "remote"} :
       (comparisonResults[p][side] # NULL /\ ~StartsComparison) => Kept(p, side)]_vars

\* C10 amended: metrics once set stay set, with their value, in every step
\* that is neither the start of a fresh comparison run nor clearResults.
C10_MetricsKept ==
  [][\A p \in 1..Len(comparisonResults) : \A side \in {"local", "remote"} :
       (/\ comparisonResults[p][side] # NULL
        /\ ~StartsComparison
        /\ clears' = clears) => Kept(p, side)]_vars

\* C10 witness: the local metrics of the first entry, set earlier, are still
\* there after the remote side and the next prompt's local side were filled
\* and a single-mode run was started.
C10_Witness ==
  /\ Len(comparisonResults) = NumPrompts
  /\ comparisonResults[1].local # NULL
  /\ comparisonResults[1].remote # NULL
  /\ comparisonResults[NumPrompts].remoteError # NULL
  /\ \E r \in RunIds : runs[r].kind = "single" /\ Active(r)


\* An entry nothing has been filled into.
Untouched(entry) == entry = InitialResults[entry.promptId]

\* Some remote field of the entry is filled.
RemoteFilled(entry) ==
  entry.remote # NULL \/ entry.remoteResponse # NULL \/ entry.remoteError # NULL

\* The local call of the run for prompt p has settled.
LocalSettled(run, p) ==
  \E k \in 1..Len(run.log) :
    /\ run.log[k].prompt = p
    /\ run.log[k].side = "local"
    /\ run.log[k].out # "inflight"

AppendCalls == {req \in pending' \ pending : req.op = "save"}

\* The number of calls in a log that returned (and so delivered metrics).
Successes(log) == Cardinality({k \in 1..Len(log) : log[k].out \notin {"fail", "inflight"}})

OwnResults(rs) == SelectSeq(rs, LAMBDA res : res.run \in RunIds)

\* Every run so far was started before the clearResults call numbered c.
StartedBefore(c) ==
  \A r \in RunIds : runs[r].kind # "none" => runs[r].clearsAtStart < c

\* C13: in the step in which the sink's clear succeeds and clearResults
\* returns, results and the comparison collection are empty and a fetch-all
\* returns the empty sequence, also when a run was active or a save was
\* pending when clearResults was called (no run having been started and
\* nothing having been loaded from an earlier session since the call).
C13_ClearedAsStated ==
  [][\A req \in pending :
       (/\ ClearDone(req, TRUE)
        /\ StartedBefore(req.id)
        /\ OwnResults(results') = results') =>
         /\ results' = <<>>
         /\ comparisonResults' = <<>>
         /\ Fetched(sinkStore', TRUE) = <<>>]_vars


\* C14: no failure of the sink propagates out of the orchestrator: every
\* promise of the orchestrator on the sink resolves; a failing fetch at
\* startup leaves results as they are (and hydration is over); clearResults
\* has emptied both collections when it calls the sink, and a failing clear
\* changes nothing more; a failing append leaves results in place, its run
\* having ended, with the busy flags down when no other run is active.
C14_SinkFailuresContained ==
  [][/\ \A s \in settled' : s.outcome = "resolved"
     /\ clears' = clears + 1 => (results' = <<>> /\ comparisonResults' = <<>>)
     /\ \A req \in pending :
          /\ HydrateDone(req, FALSE) =>
               (results' = results /\ hasHydrated' /\ req \notin pending')
          /\ ClearDone(req, FALSE) =>
               (/\ results' = results
                /\ comparisonResults' = comparisonResults
                /\ req \notin pending')
          /\ SaveDone(req, FALSE) =>
               (/\ results' = results
                /\ runs'[req.id].pc = "done"
                /\ (\A r \in RunIds : ~Active(r)) => (~isRunning' /\ ~isComparing'))]_vars

\* C14 witness: the fetch, an append and the clear have all failed: the sink
\* still holds the earlier session's result, which never reached results,
\* and the one run's results are in memory although their append failed.
C14_Witness ==
  /\ {[op |-> "hydrate", ok |-> FALSE, outcome |-> "resolved"],
      [op |-> "save", ok |-> FALSE, outcome |-> "resolved"],
      [op |-> "clear", ok |-> FALSE, outcome |-> "resolved"]} \subseteq settled
  /\ sinkStore = <<PriorResult>>
  /\ pending = {}
  /\ hasHydrated
  /\ results # <<>>
  /\ OwnResults(results) = results
  /\ \A r \in RunIds : ~Active(r)
  /\ ~isRunning /\ ~isComparing


\* ------------------------------------------------------ claims: generate calls
\* The fragments (by position) that carried non-empty content.
ContentIdx(frags) ==
  {k \in 1..Len(frags) : frags[k].kind = "data" /\ frags[k].content # <<>>}

\* The content received in the first n fragments, concatenated.
RECURSIVE TextUpTo(_, _)
TextUpTo(frags, n) ==
  IF n = 0 THEN <<>>
  ELSE TextUpTo(frags, n - 1)
         \o (IF frags[n].kind = "data" THEN frags[n].content ELSE <<>>)

\* t is s with something appended.
ProperExtension(s, t) == Len(t) > Len(s) /\ SubSeq(t, 1, Len(s)) = s

\* The metrics the call emitted (one record once it has returned).
Emitted == gen.emitted[1]

\* C15: onMetrics is invoked exactly once by a call that has returned and
\* not at all by a call that has failed or is still going on.
C15_MetricsOnceOrNever ==
  Len(gen.emitted) = (IF gen.pc = "returned" THEN 1 ELSE 0)

\* C15 witness: a call whose stream broke after content was delivered has
\* failed without emitting metrics.
C15_Witness ==
  /\ gen.pc = "failed"
  /\ Len(gen.updates) >= 1
  /\ ContentIdx(gen.frags) # {}
  /\ gen.emitted = <<>>

\* C16: the k-th value passed to onUpdate is the concatenation of all content
\* received up to the k-th fragment with content; each value properly
\* extends the one before; there are as many updates as fragments with
\* content; and the text returned is the last update (empty if none).
C16_UpdatesAreWholeText ==
  LET idx == ContentIdx(gen.frags) IN
  /\ Len(gen.updates) = Cardinality(idx)
  /\ \A n \in idx :
       gen.updates[Cardinality({j \in idx : j <= n})] = TextUpTo(gen.frags, n)
  /\ \A k \in 1..Len(gen.updates) :
       ProperExtension(IF k = 1 THEN <<>> ELSE gen.updates[k - 1], gen.updates[k])
  /\ gen.pc = "returned" =>
       gen.returned = (IF gen.updates = <<>> THEN <<>>
                       ELSE gen.updates[Len(gen.updates)])

\* C16 witness: a returned call that read content, an empty fragment and
\* content again: two updates, the second the whole text, which it returned.
C16_Witness ==
  /\ gen.pc = "returned"
  /\ Len(gen.frags) = 3
  /\ gen.frags[1].content # <<>>
  /\ gen.frags[2].content = <<>>
  /\ gen.frags[3].content # <<>>
  /\ Len(gen.updates) = 2
  /\ Len(gen.updates[2]) = 2
  /\ gen.returned = gen.updates[2]

\* Equality of two rates.
RateEq(a, b) == a.num * b.den = b.num * a.den

\* The one rule for tokensPerSec: the decode-phase rate when the
\* first-content time is known and tokenCount >= 2, else the end-to-end rate.
RuleRate(tokenCount, first, end, totalTimeMs) ==
  IF first # NoTime /\ tokenCount >= 2
  THEN Rate(tokenCount - 1, end - first)
  ELSE Rate(tokenCount, totalTimeMs)

\* C17: on both backends the emitted tokensPerSec is what the one rule gives
\* for the emitted tokenCount and the times of the call (total time and
\* decode time being positive).
C17_OneRateRule ==
  (/\ gen.pc = "returned"
   /\ Emitted.totalTimeMs > 0
   /\ gen.first # NoTime => gen.end > gen.first) =>
     RateEq(Emitted.tokensPerSec,
            RuleRate(Emitted.tokenCount, gen.first, gen.end, Emitted.totalTimeMs))

\* The last data fragment of a stream, 0 if there is none.
Terminal(frags) ==
  LET data == {k \in 1..Len(frags) : frags[k].kind = "data"} IN
  IF data = {} THEN 0 ELSE CHOOSE k \in data : \A j \in data : j <= k

\* No fragment but the terminal one carries a usage figure, and that one
\* carries no content.
UsageOnlyTerminal(frags) ==
  \A k \in 1..Len(frags) :
    frags[k].usage # NoUsage => (k = Terminal(frags) /\ frags[k].content = <<>>)

\* The usage figure of the terminal fragment, if any.
TerminalUsage(frags) ==
  IF Terminal(frags) = 0 THEN NoUsage ELSE frags[Terminal(frags)].usage

\* C18: the emitted tokenCount is the usage figure of the stream's terminal
\* fragment when there is one, and otherwise the number of fragments with
\* content (so never 0 for a stream that delivered content), on both
\* backends.
C18_TokenCountSource ==
  (gen.pc = "returned" /\ UsageOnlyTerminal(gen.frags)) =>
    Emitted.tokenCount =
      (IF TerminalUsage(gen.frags) # NoUsage
       THEN TerminalUsage(gen.frags)
       ELSE Cardinality(ContentIdx(gen.frags)))

\* C19: the emitted tokensPerSec is never negative, and it is 0 exactly when
\* tokenCount = 0 or totalTimeMs <= 0.
C19_RateZeroExactly ==
  gen.pc = "returned" =>
    /\ Emitted.tokensPerSec.den > 0
    /\ Emitted.tokensPerSec.num >= 0
    /\ Emitted.tokensPerSec.num = 0
         <=> (Emitted.tokenCount = 0 \/ Emitted.totalTimeMs <= 0)

\* C20: the first-content time is set exactly when a fragment with content
\* has been read and is the time the first such fragment was read at; a
\* returned call has 0 <= ttftMs <= totalTimeMs, with ttftMs the time from
\* the start to that fragment, and 0 when no fragment had content.
C20_TtftWithinTotal ==
  LET idx == ContentIdx(gen.frags) IN
  /\ gen.first # NoTime <=> idx # {}
  /\ idx # {} => gen.first = gen.frags[CHOOSE k \in idx : \A j \in idx : k <= j].at
  /\ gen.pc = "returned" =>
       /\ 0 <= Emitted.ttftMs
       /\ Emitted.ttftMs <= Emitted.totalTimeMs
       /\ Emitted.ttftMs = (IF idx = {} THEN 0 ELSE gen.first - gen.start)

\* C20 witness: a returned call that read an empty fragment, then, later,
\* content, and, later again, more content: ttftMs is the time to the second
\* fragment, positive and below totalTimeMs.
C20_Witness ==
  /\ gen.pc = "returned"
  /\ Len(gen.frags) = 3
  /\ gen.frags[1].content = <<>>
  /\ gen.frags[2].content # <<>>
  /\ gen.frags[3].content # <<>>
  /\ gen.frags[1].at < gen.frags[2].at
  /\ gen.frags[2].at < gen.frags[3].at
  /\ Emitted.ttftMs = gen.frags[2].at - gen.start
  /\ Emitted.ttftMs > 0
  /\ Emitted.ttftMs < Emitted.totalTimeMs

\* C21: a line of the remote stream that is malformed or does not parse is
\* skipped without failing the call: the step that handles it leaves the text
\* buffer, the onUpdate calls, the first-content time and tokenCount as they
\* are, and the call goes on reading the stream.
C21_MalformedFragmentSkipped ==
  [][(gen.backend = "remote" /\ Len(gen'.frags) = Len(gen.frags) + 1
        /\ gen'.frags[Len(gen'.frags)].kind = "junk") =>
       /\ gen'.fullText = gen.fullText
       /\ gen'.updates = gen.updates
       /\ gen'.first = gen.first
       /\ gen'.tokenCount = gen.tokenCount
       /\ gen'.emitted = gen.emitted
       /\ gen'.pc = "stream"]_vars

\* C21 witness: a malformed line that carries text came first and was
\* skipped, a content fragment after it was counted and passed on, and the
\* call returned the text of that fragment alone.
C21_Witness ==
  /\ gen.backend = "remote"
  /\ gen.pc = "returned"
  /\ Len(gen.frags) = 2
  /\ gen.frags[1].kind = "junk" /\ gen.frags[1].content # <<>>
  /\ gen.frags[2].kind = "data" /\ gen.frags[2].content # <<>>
  /\ gen.tokenCount = 1
  /\ gen.updates = <<gen.frags[2].content>>
  /\ gen.returned = gen.frags[2].content

\* The message list the contract describes for history h: the backend's
\* preamble, then the non-system messages of h in their order.
StatedMessages(backend, h) ==
  <<IF backend = "local" THEN LocalPreamble ELSE RemotePreamble>>
    \o ApiMessages(NonSystem(h))

\* C22: on both backends and for every history, the message list sent is
\* the one system preamble followed by the history's non-system messages in
\* their order; the history's system messages are not sent.
C22_OnePreambleNoSystem ==
  gen.sent # <<>> =>
    /\ gen.sent = StatedMessages(gen.backend, gen.history)
    /\ Len(SelectSeq(gen.sent, LAMBDA m : m.role = "system")) = 1

\* C23: a local generate call made while there is no initialized engine (never
\* loaded, load in flight, or load failed) fails at once: it reads nothing,
\* sends nothing and invokes neither onUpdate nor onMetrics.
C23_NotInitializedFailsAtOnce ==
  (gen.backend = "local" /\ (engine = NULL \/ ~isInitialized)) =>
    /\ gen.pc = "failed"
    /\ gen.updates = <<>>
    /\ gen.emitted = <<>>
    /\ gen.frags = <<>>
    /\ gen.sent = <<>>

\* C23 witness: the call was made while the engine load was in flight and
\* has failed without a callback.
C23_Witness ==
  /\ gen.backend = "local"
  /\ gen.pc = "failed"
  /\ engLoading /\ engine = NULL
  /\ gen.updates = <<>> /\ gen.emitted = <<>>

\* The loads started so far, as far as the log tells.
LoadsStarted == Len(SelectSeq(initLog, LAMBDA e : e = "load"))

\* This step starts an engine load.
StartsLoad == ~engLoading /\ engLoading'

\* C24: initialization is one-time and idempotent: however often initEngine
\* is called, one after the other or while a load is in flight, at most one
\* engine load is started (the first call's), and once a load has succeeded
\* no step changes engine or isInitialized.
C24_InitOnce ==
  [][/\ StartsLoad => (initLog = <<>> /\ ~hasTriedInit)
     /\ LoadsStarted' <= 1
     /\ hasTriedInit => hasTriedInit'
     /\ isInitialized => UNCHANGED <<engine, isInitialized>>]_vars

\* C24 witness: initEngine was called three times, the first call started
\* the load and the others returned at once, and the engine is initialized.
C24_Witness ==
  /\ initLog = <<"load", "skip", "skip">>
  /\ isInitialized /\ engine # NULL /\ ~engLoading

\* C25: nothing is retried: within a run every (prompt, backend) pair is
\* called at most once, a failed call leaves no result for its pair, and an
\* engine load that failed is not started again.
C25_NoRetries ==
  /\ \A r \in RunIds : \A j, k \in 1..Len(runs[r].log) :
       (runs[r].log[j].prompt = runs[r].log[k].prompt
          /\ runs[r].log[j].side = runs[r].log[k].side) => j = k
  /\ \A r \in RunIds : \A k \in 1..Len(runs[r].log) :
       runs[r].log[k].out = "fail" =>
         \A n \in 1..Len(runs[r].newResults) :
           ~(/\ runs[r].newResults[n].promptId = runs[r].log[k].prompt
             /\ runs[r].newResults[n].mode = runs[r].log[k].side)
  /\ LoadsStarted <= 1

\* C25 witness: the engine load failed and initEngine was called twice more
\* without starting a load; a remote-only run then ended on the failure of
\* its second prompt, called once, with the first prompt's result alone.
C25_Witness ==
  /\ initLog = <<"load", "skip", "skip">>
  /\ engine = NULL /\ ~engLoading
  /\ \E r \in RunIds :
       /\ runs[r].kind = "single"
       /\ runs[r].pc = "done"
       /\ Len(runs[r].log) = 2
       /\ runs[r].log[1].out = "text"
       /\ runs[r].log[2].out = "fail"
       /\ Len(runs[r].newResults) = 1

\* C26: when every generate call and every delay eventually settles, every
\* run that was started eventually ends with the state back at Idle (neither
\* isRunning nor isComparing set), where a later run can be started.
C26_RunsReturnToIdle ==
  \A r \in RunIds :
    Active(r) ~> (~Active(r) /\ ~isRunning /\ ~isComparing /\ ~RemoteOnlyDisabled)

\* C26 witness: a single-mode run ended on a failed call, a comparison run
\* started after it has ended too, and the state is Idle.
C26_Witness ==
  /\ runs[1].kind = "single" /\ runs[1].pc = "done"
  /\ runs[1].log[Len(runs[1].log)].out = "fail"
  /\ runs[2].kind = "compare" /\ runs[2].pc = "done"
  /\ ~isRunning /\ ~isComparing

\* In this step the call of the given side that comparison run r was
\* awaiting is rejected.
SideFails(r, side) ==
  LET n == Len(runs[r].log) IN
  /\ runs[r].kind = "compare"
  /\ n > 0
  /\ Len(runs'[r].log) = n
  /\ runs[r].log[n].side = side
  /\ runs[r].log[n].out = "inflight"
  /\ runs'[r].log[n].out = "fail"

\* Entry e with the fields of the given side left out.
OtherFields(e, side) ==
  IF side = "local"
  THEN [e EXCEPT !.localError = NULL]
  ELSE [e EXCEPT !.remoteError = NULL]

\* C27: in a comparison run a failed side call for prompt i changes nothing
\* but that side's error field of entry i: the side's metrics and response
\* stay null, the other side's fields and the other entries are untouched,
\* and no BenchmarkResult is added for that prompt and side.
C27_FailureTouchesOwnErrorOnly ==
  [][\A r \in RunIds, side \in Modes :
       SideFails(r, side) =>
         LET i == runs[r].i IN
         /\ Len(comparisonResults') = Len(comparisonResults)
         /\ \A p \in 1..Len(comparisonResults) :
              IF p = i
              THEN /\ OtherFields(comparisonResults'[p], side)
                        = OtherFields(comparisonResults[p], side)
                   /\ IF side = "local"
                      THEN /\ comparisonResults'[p].localError # NULL
                           /\ comparisonResults'[p].local = NULL
                           /\ comparisonResults'[p].localResponse = NULL
                      ELSE /\ comparisonResults'[p].remoteError # NULL
                           /\ comparisonResults'[p].remote = NULL
                           /\ comparisonResults'[p].remoteResponse = NULL
              ELSE comparisonResults'[p] = comparisonResults[p]
         /\ runs'[r].newResults = runs[r].newResults
         /\ \A n \in 1..Len(results') :
              ~(/\ results'[n].run = r
                /\ results'[n].promptId = i
                /\ results'[n].mode = side)]_vars

\* C27 witness: in a comparison run the local call of the first prompt
\* returned and its remote call failed, and the local call of the second
\* prompt failed: each entry holds exactly what its calls left.
C27_Witness ==
  /\ Len(comparisonResults) = NumPrompts
  /\ comparisonResults[1].local # NULL
  /\ comparisonResults[1].remoteError # NULL
  /\ comparisonResults[1].remote = NULL
  /\ comparisonResults[2].localError # NULL
  /\ comparisonResults[2].local = NULL
  /\ comparisonResults[2].remoteError = NULL
  /\ \E r \in RunIds :
       /\ runs[r].kind = "compare"
       /\ Len(runs[r].newResults) = 1

\* In this step the call of the given side that comparison run r was
\* awaiting returns (its metrics were delivered).
SideReturns(r, side) ==
  LET n == Len(runs[r].log) IN
  /\ runs[r].kind = "compare"
  /\ n > 0
  /\ Len(runs'[r].log) = n
  /\ runs[r].log[n].side = side
  /\ runs[r].log[n].out = "inflight"
  /\ runs'[r].log[n].out \in {"text", "empty"}

\* The metrics and response fields of a side in an entry.
SideMetrics(e, side) == IF side = "local" THEN e.local ELSE e.remote
SideResponse(e, side) == IF side = "local" THEN e.localResponse ELSE e.remoteResponse

\* This step appends to run r's new results exactly one result, for the
\* run's current prompt and the given side.
PushesOne(r, side) ==
  LET old == runs[r].newResults
      new == runs'[r].newResults
  IN
  /\ Len(new) = Len(old) + 1
  /\ SubSeq(new, 1, Len(old)) = old
  /\ new[Len(new)].promptId = runs[r].i
  /\ new[Len(new)].mode = side
  /\ new[Len(new)].metrics # NULL

\* No two results of a list are for the same prompt and mode.
OnePerPair(list) ==
  \A j, k \in 1..Len(list) :
    (list[j].promptId = list[k].promptId /\ list[j].mode = list[k].mode) => j = k

\* A comparison run's list of new results changes only when one of its
\* calls returns.
PushedOnlyOnReturn ==
  \A r \in RunIds :
    (runs[r].kind = "compare" /\ runs'[r].newResults # runs[r].newResults) =>
      \E side \in Modes : SideReturns(r, side)

\* C28 as stated: every side call that returns fills its side's metrics and
\* response of the prompt's entry with non-null values and adds exactly one
\* result for that prompt and mode; every result added comes from one
\* returned call, and there is at most one result per prompt and mode.
C28_SuccessFillsAsStated ==
  [][/\ \A r \in RunIds, side \in Modes :
          SideReturns(r, side) =>
            /\ runs[r].i \in 1..Len(comparisonResults')
            /\ SideMetrics(comparisonResults'[runs[r].i], side) # NULL
            /\ SideResponse(comparisonResults'[runs[r].i], side) # NULL
            /\ PushesOne(r, side)
            /\ OnePerPair(runs'[r].newResults)
     /\ PushedOnlyOnReturn]_vars

\* C28 amended: every side call that returns adds exactly one result for
\* its prompt and mode, and results are added by returning calls only, at
\* most one per prompt and mode; unless Clear was clicked during the run,
\* the entry's metrics of that side are filled, and its response is filled
\* when the returned text is not empty and stays null when it is.
C28_SuccessFills ==
  [][/\ \A r \in RunIds, side \in Modes :
          SideReturns(r, side) =>
            /\ PushesOne(r, side)
            /\ OnePerPair(runs'[r].newResults)
            /\ clears = runs[r].clearsAtStart =>
                 /\ runs[r].i \in 1..Len(comparisonResults')
                 /\ SideMetrics(comparisonResults'[runs[r].i], side) # NULL
                 /\ (SideResponse(comparisonResults'[runs[r].i], side) # NULL)
                      <=> (runs'[r].log[Len(runs[r].log)].out = "text")
     /\ PushedOnlyOnReturn]_vars

\* C28 witness: a comparison run has ended whose calls all returned, one of
\* them an empty text: each call left one result, and of the first prompt's
\* entry both metrics are filled while the local response is null.
C28_Witness ==
  \E r \in RunIds :
    /\ runs[r].kind = "compare"
    /\ runs[r].pc = "done"
    /\ runs[r].log[1].out = "empty"
    /\ \A k \in 2..Len(runs[r].log) : runs[r].log[k].out = "text"
    /\ Len(runs[r].newResults) = 2 * NumPrompts
    /\ Len(comparisonResults) = NumPrompts
    /\ comparisonResults[1].local # NULL
    /\ comparisonResults[1].localResponse = NULL
    /\ comparisonResults[1].remote # NULL
    /\ comparisonResults[1].remoteResponse # NULL

\* List a is an initial part of list b.
IsPrefix(a, b) == Len(a) <= Len(b) /\ SubSeq(b, 1, Len(a)) = a

\* C29: between clears the result collection is append-only: whatever a
\* step without a clearResults call does to it, the collection before is an
\* initial part of the collection after (nothing is dropped, edited or
\* reordered), so the collection before a run is a prefix of the one after.
C29_AppendOnlyBetweenClears ==
  [][clears' = clears => IsPrefix(results, results')]_vars

\* How often piece c occurs in a text.
RECURSIVE Count(_, _)
Count(c, text) ==
  IF text = <<>> THEN 0
  ELSE (IF Head(text) = c THEN 1 ELSE 0) + Count(c, Tail(text))

\* content.split("\n").length
Lines(text) == Count(NL, text) + 1

\* A CSV reader: records end at a line break outside quotes, cells at a
\* comma outside quotes, and inside quotes a doubled quote is one quote.
RECURSIVE ReadCsv(_, _, _, _, _, _)
ReadCsv(text, k, quoted, cell, row, rows) ==
  IF k > Len(text) THEN Append(rows, Append(row, cell))
  ELSE LET c == text[k] IN
    IF quoted
    THEN IF c = DQ
         THEN IF k < Len(text) /\ text[k + 1] = DQ
              THEN ReadCsv(text, k + 2, TRUE, Append(cell, DQ), row, rows)
              ELSE ReadCsv(text, k + 1, FALSE, cell, row, rows)
         ELSE ReadCsv(text, k + 1, TRUE, Append(cell, c), row, rows)
    ELSE IF c = DQ THEN ReadCsv(text, k + 1, TRUE, cell, row, rows)
    ELSE IF c = Comma THEN ReadCsv(text, k + 1, FALSE, <<>>, Append(row, cell), rows)
    ELSE IF c = NL THEN ReadCsv(text, k + 1, FALSE, <<>>, <<>>, Append(rows, Append(row, cell)))
    ELSE ReadCsv(text, k + 1, FALSE, Append(cell, c), row, rows)

\* The records a CSV reader finds in a file.
Records(file) == ReadCsv(file, 1, FALSE, <<>>, <<>>, <<>>)

\* C30 as stated: an empty collection gives no file; one result gives a
\* file of exactly 2 lines, whatever the prompt and response texts, in which
\* every double quote of the two texts is doubled inside its quoted field.
C30_CsvTwoLinesAsStated ==
  /\ Len(results) = 0 => csv = <<>>
  /\ \A k \in 1..Len(csv) :
       /\ Lines(csv[k]) = 2
       /\ Count(DQ, csv[k])
            = 4 + 2 * (Count(DQ, results[1].promptText) + Count(DQ, results[1].response))

\* C30 amended: an empty collection gives no file; one result gives a file
\* of 2 records (header and row) that a CSV reader reads back with the
\* prompt and the response as they were, every double quote of theirs
\* doubled inside the quoted field; the file has 2 lines plus one for every
\* line break in the two texts.
C30_CsvTwoRecords ==
  /\ Len(results) = 0 => csv = <<>>
  /\ \A k \in 1..Len(csv) :
       LET r == results[1]
           rows == Records(csv[k])
       IN
       /\ Len(rows) = 2
       /\ rows[1] = Headers
       /\ Len(rows[2]) = Len(Headers)
       /\ rows[2][5] = r.promptText
       /\ rows[2][6] = r.response
       /\ Count(DQ, csv[k]) = 4 + 2 * (Count(DQ, r.promptText) + Count(DQ, r.response))
       /\ Lines(csv[k]) = 2 + Count(NL, r.promptText) + Count(NL, r.response)

\* C30 witness: a file was produced for a result whose prompt holds a double
\* quote and a comma and whose response holds a line break; it has 3 lines.
C30_Witness ==
  /\ Len(csv) = 1
  /\ Len(results) = 1
  /\ results[1].promptText = <<DQ, Comma>>
  /\ results[1].response = <<"a", NL>>
  /\ Lines(csv[1]) = 3
  /\ Len(Records(csv[1])) = 2

\* C31: an answer of a history or benchmark endpoint that carries a
\* non-empty error field is a soft failure and is never thrown: the two
\* fetch clients return the empty list, the save client returns 0 and the
\* clear clients return normally.
C31_ErrorFieldIsSoft ==
  (apiCall.fn # "none" /\ BodyRead(apiCall.resp) /\ apiCall.resp.error # "") =>
    /\ apiCall.ends.kind = "returns"
    /\ apiCall.fn \in {"fetchRemoteChatHistory", "fetchBenchmarkResults"} =>
         apiCall.ends = Returns(<<>>)
    /\ apiCall.fn = "saveBenchmarkResults" => apiCall.ends = Returns(0)

\* C31 witness: the save client was answered with an error text next to a
\* saved count of 1, and returned 0.
C31_Witness ==
  /\ apiCall.fn = "saveBenchmarkResults"
  /\ BodyRead(apiCall.resp)
  /\ apiCall.resp.error # ""
  /\ apiCall.resp.saved = 1
  /\ apiCall.ends = Returns(0)

\* The comparison runs started with isLocalReady false.
RemoteOnlyComparisons ==
  {r \in RunIds : runs[r].kind = "compare" /\ ~runs[r].isLocalReady}

\* C32: a comparison run started with isLocalReady false never calls the
\* local generate function and appends no local-mode result, and it still
\* makes the remote call for every prompt, in order; as long as no
\* comparison run was started with the engine ready, every entry's local,
\* localResponse and localError stay unset.
C32_LocalSkippedWhenNotReady ==
  /\ \A r \in RemoteOnlyComparisons :
       /\ CallsOf(runs[r].log, "local") = <<>>
       /\ \A n \in 1..Len(runs[r].newResults) : runs[r].newResults[n].mode = "remote"
       /\ PromptsOf(runs[r].log) = UpTo(Len(runs[r].log))
       /\ runs[r].pc = "done" => Len(runs[r].log) = NumPrompts
  /\ (\A r \in RunIds : runs[r].kind = "compare" => ~runs[r].isLocalReady) =>
       \A p \in 1..Len(comparisonResults) :
         /\ comparisonResults[p].local = NULL
         /\ comparisonResults[p].localResponse = NULL
         /\ comparisonResults[p].localError = NULL

\* C32 witness: such a run has ended, its remote calls made for every
\* prompt, one failed and one returned, and no entry has a local field set.
C32_Witness ==
  \E r \in RemoteOnlyComparisons :
    /\ runs[r].pc = "done"
    /\ Len(runs[r].log) = NumPrompts
    /\ runs[r].log[1].out = "fail"
    /\ runs[r].log[2].out = "text"
    /\ Len(comparisonResults) = NumPrompts
    /\ comparisonResults[1].remoteError # NULL
    /\ comparisonResults[2].remote # NULL
    /\ \A p \in 1..NumPrompts : comparisonResults[p].local = NULL

\* The part of the body delivered so far, its lines that are complete
\* (followed by a line break), and all its lines.
Delivered == SubSeq(gen.body, 1, gen.pos)
CompleteLines(text) == LET segs == SplitNL(text, <<>>) IN SubSeq(segs, 1, Len(segs) - 1)
AllLines(text) == SplitNL(text, <<>>)

\* The contents of the content events among lines, in order.
RECURSIVE ContentsOf(_)
ContentsOf(lines) ==
  IF lines = <<>> THEN <<>>
  ELSE (IF EventContent(Head(lines)) # <<>> THEN <<EventContent(Head(lines))>> ELSE <<>>)
         \o ContentsOf(Tail(lines))

\* The contents joined, and the texts after each of them.
RECURSIVE Joined(_)
Joined(contents) ==
  IF contents = <<>> THEN <<>> ELSE Head(contents) \o Joined(Tail(contents))
Prefixes(contents) == [k \in 1..Len(contents) |-> Joined(SubSeq(contents, 1, k))]

\* C33: the text, the updates and tokenCount of a remote call are a function
\* of the lines delivered so far alone, however the body was cut into read
\* chunks: they are those of the complete lines of the delivered part, and a
\* call that has returned from a newline-terminated body gives those of the
\* body's lines.
C33_ChunkingIndependent ==
  (gen.backend = "remote" /\ gen.pc \in {"stream", "returned"}) =>
    LET contents == ContentsOf(CompleteLines(Delivered)) IN
    /\ gen.fullText = Joined(contents)
    /\ gen.updates = Prefixes(contents)
    /\ gen.tokenCount = Len(contents)
    /\ gen.pc = "returned" =>
         /\ Delivered = gen.body
         /\ gen.returned = Joined(contents)

\* C33 witness: a newline-terminated body of two content events was read in
\* three chunks, the first ending inside the first event's JSON and the
\* second inside the second event's line, and the call returned both.
C33_Witness ==
  /\ gen.pc = "returned"
  /\ gen.body = BodyOf(<<EventLine, EventLine>>, TRUE)
  /\ Len(gen.frags) = 3
  /\ gen.frags[1].content = <<DataPrefix, JsonHead>>
  /\ gen.frags[2].content = <<JsonTail, NL, DataPrefix>>
  /\ gen.tokenCount = 2
  /\ gen.returned = <<"a", "a">>

\* C34: every content event the server delivered before the stream ended
\* has contributed to the returned text and to tokenCount, a last data line
\* without a line break after it included.
C34_EveryEventCounts ==
  (gen.backend = "remote" /\ gen.pc = "returned") =>
    LET contents == ContentsOf(AllLines(gen.body)) IN
    /\ gen.returned = Joined(contents)
    /\ gen.tokenCount = Len(contents)

\* This step is the continuation of the mount effect's fetch.
Hydrates == ~hasHydrated /\ hasHydrated'

\* C35: the startup hydration never discards a result produced in this
\* session and never undoes a clear: when the fetch resolves, every result
\* that was in the collection is still in it, and a collection that
\* clearResults emptied stays empty.
C35_HydrationKeepsSession ==
  [][Hydrates =>
       /\ \A k \in 1..Len(results) : \E j \in 1..Len(results') : results'[j] = results[k]
       /\ (clears > 0 /\ results = <<>>) => results' = <<>>]_vars

\* ---------------------------------------------------------------------- C36
\* The elements of a list.
Elements(list) == {list[i] : i \in 1..Len(list)}

\* C36: when a mode's startup history load resolves, every message that was
\* in that mode's list before the load resolved (all of them were added in
\* this session: the list starts empty) is still in the list afterwards.
C36_HydrationKeepsMessages ==
  [][\A m \in Modes :
       (m \in historyLoads /\ m \notin historyLoads')
         => Elements(messagesByMode[m]) \subseteq Elements(messagesByMode'[m])]_vars

\* ---------------------------------------------------------------------- C37
\* The puts among the writes that have not reached IndexedDB yet.
PendingPuts == {w \in localWrites : w.op = "put"}

\* C37: as long as the startup load of the local transcript has not
\* completed, saveLocalMessages has not been called and no put is on its way
\* to IndexedDB; once it has completed, the step that completes it and every
\* later step that changes the local list call saveLocalMessages with the
\* list's new value.
C37_SaveOnlyAfterLoad ==
  [][/\ ~hasHydratedLocal' => (localSaves' = <<>> /\ PendingPuts' = {})
     /\ (hasHydratedLocal'
           /\ (~hasHydratedLocal \/ messagesByMode'.local # messagesByMode.local))
         => /\ localSaves' = Append(localSaves, messagesByMode'.local)
            /\ \E w \in PendingPuts' \ PendingPuts : w.value = messagesByMode'.local]_vars

\* The stored transcript was loaded, a message was sent and answered in
\* local mode, each change was saved and the last save has reached the store.
C37_Witness ==
  /\ hasHydratedLocal
  /\ Len(localSaves) = 3
  /\ Len(localSaves[1]) = 2
  /\ localSaves[3] = messagesByMode.local
  /\ Len(messagesByMode.local) = 4
  /\ localDB = messagesByMode.local

\* ---------------------------------------------------------------------- C38
\* The mode that is not m.
OtherMode(m) == IF m = "local" THEN "remote" ELSE "local"

\* C38: a send appends the user's message to the list of the mode selected
\* at that moment, remembers that mode when it goes on to generate, and
\* leaves the other mode's list alone; when its generate call settles,
\* whatever mode is selected by then, either the assistant's message is
\* appended to the list of the remembered mode and the error is left as it
\* is (success), or that list is left as it is and the error is set
\* (failure); in both cases the other mode's list is not changed and
\* isLoading is false afterwards.
C38_ReplyLandsInItsMode ==
  [][/\ sends' = sends + 1
         => /\ messagesByMode'[mode] = Append(messagesByMode[mode], UserMessage(sends'))
            /\ messagesByMode'[OtherMode(mode)] = messagesByMode[OtherMode(mode)]
            /\ chat'.pc = "gen" => chat'.modeKey = mode
            /\ chat'.pc # "gen" => (error' = ErrorMessage /\ ~isLoading')
     /\ (chat.pc = "gen" /\ chat'.pc = "idle")
         => /\ messagesByMode'[OtherMode(chat.modeKey)]
                 = messagesByMode[OtherMode(chat.modeKey)]
            /\ ~isLoading'
            /\ \/ /\ messagesByMode'[chat.modeKey]
                       = Append(messagesByMode[chat.modeKey], AssistantMessage(sends))
                  /\ error' = error
               \/ /\ messagesByMode'[chat.modeKey] = messagesByMode[chat.modeKey]
                  /\ error' = ErrorMessage]_vars

\* A message was sent in remote mode, the mode was switched to local during
\* generation, and the reply has been appended to the remote list, right
\* after the user's message; the local list holds neither.
C38_Witness ==
  /\ sends = 1
  /\ chat = [pc |-> "idle", modeKey |-> "remote"]
  /\ mode = "local"
  /\ ~isLoading
  /\ messagesByMode.remote = <<UserMessage(1), AssistantMessage(1)>>
  /\ Elements(messagesByMode.local) \cap {UserMessage(1), AssistantMessage(1)} = {}

\* ---------------------------------------------------------------------- C39
\* C39: in every state of the local engine hook, isInitialized implies that
\* there is an engine, at most one load is in flight, and the hook is not
\* initialized while a load is in flight (a load that outlived a reset has
\* not installed its engine next to a newer load).
C39_OneLoadOneEngine ==
  /\ isInitialized => engine # NULL
  /\ loads <= 1
  /\ ~(isInitialized /\ loads > 0)

====
